---------------------------- MODULE Spec2Model ----------------------------
(***************************************************************************)
(* A model of the trajectory scripts of my-exact:                          *)
(*   analysis/analyze_trajectories.py            (direction, flattening)   *)
(*   trajectory_collection/simplified_process_react.py  (turn builder,     *)
(*       message filter, post-processing, token-budget trimming)           *)
(*                                                                         *)
(* Text.  A Python str is modelled as a sequence of lexemes (TLA+ strings):*)
(* a lexeme is one character (" ", "\n") or a run of characters that the   *)
(* code only ever tests or copies as a whole (a keyword, a literal of an   *)
(* f-string).  len(s) is the sum of the lexemes' lengths, `k in s` is a    *)
(* contiguous-subsequence test and s.lower() maps every lexeme.            *)
(***************************************************************************)
EXTENDS Naturals, Integers, Sequences, FiniteSets, TLC

VARIABLES
    pc,                        \* position of the running script
    \* analyze_trajectories.py
    trajectory,                \* the trajectory of the file being analysed
    flattened_traj,            \* try_flattening's first result
    flattened_objects,         \* which object each item of that result is
    has_state_action_pair,     \* try_flattening's second result
    total_trajectories,        \* len(all_stats)
    invalid_after_flattening,  \* entries of all_stats with flattened_valid false
    item,                      \* the argument of get_direction_info
    direction_info,            \* its result
    \* simplified_process_react.py: _filter_messages
    messages,                  \* the turn list handed to _filter_messages
    strict_mode,               \* its strict_mode argument
    filtered,                  \* its result: TRUE when the list is rejected
    \* simplified_process_react.py: process_trajectories, for one task
    traj_steps,                \* trajectories[task_id]
    create_partials,           \* argument create_partials
    apply_filters,             \* argument apply_filters
    max_tokens,                \* argument max_tokens
    actions,                   \* the loop's local lists, after balancing
    observations,
    action_history,
    candidates,                \* every turn list the turn builder built
    all_message_sets,          \* the turn lists that passed _filter_messages
    training_samples,
    skipped_tasks,
    output_samples,            \* what was written to the output files
    \* simplified_process_react.py: check_context_size
    ctx_messages,              \* the turn list handed to check_context_size
    ctx_max_tokens,            \* its max_tokens argument
    trimmed_messages,          \* the turn list it returns
    trimmed_tokens,            \* the token count it returns
    retrimmed_messages,        \* what it returns for its own result
    retrimmed_tokens,          \* and the token count of that
    \* simplified_process_react.py: _trainable_chat_postprocessing on one turn
    san_role,                  \* the role of the turn handed to _trainable_chat_postprocessing
    san_content,               \* its content
    san_max_tokens,            \* the max_tokens argument
    sanitized,                 \* the content of the turn returned
    \* the trajectory loaders of analyze_o4_mini_trajectories.py, simplified_process_react.py and fixed_process_react.py
    loader,                    \* the script whose loader runs
    container,                 \* the content of the trajectory file
    load_result,               \* what the loader extracted from it
    input_layout,              \* fixed_process_react: task_<id> directories or flat files
    lenient_mode,              \* fixed_process_react: the lenient_mode argument
    \* the loops over the files of analyze_o4_mini_trajectories.py, simplified_process_react.py and analyze_trajectory_success.py
    batch_script,              \* the script that runs over the directory
    listing,                   \* the files of the directory in the order they are visited
    cursor,                    \* the position of the file visited next
    processed,                 \* the positions of the files taken into the results
    skipped,                   \* the positions of the files skipped with a message
    batch_status,              \* running / completed / aborted by an uncaught exception
    results,                   \* the counters of the run
    \* the script simple_react.py
    react_task,                \* the number of the task being run
    react_step,                \* the steps already made for that task
    react_trajectory,          \* the trajectory of that task so far
    react_failed,              \* the tasks that had a failed chat-completion call
    react_trajectories,        \* the list trajectories
    saved_files,               \* the task ids of the test_task files written
    finetune_examples,         \* the task id of each training example written
    react_status,              \* running / saved / converted / aborted by an uncaught exception
    \* the caption caches of fixed_process_react.py and process_react_trajectories.py
    caption_script,            \* the script whose cached_caption_image_fn is called
    image_caption_cache,       \* the cache as a sequence of entries in insertion order
    captioner_log,             \* the captioner invocations and the evictions of the run in order
    cache_before,              \* the cache when the last call began
    last_images,               \* the argument of the last call
    last_captions,             \* the value the last call returned
    last_invoked,              \* the keys the captioner was invoked for in the last call
    \* simplified_process_react.py: the task-id filter of process_trajectories
    filter_file,               \* what the filter_file argument points to
    task_input_mode,           \* input_dir is a directory of task_<id> directories or an exported bundle
    available_tasks,           \* the task ids found in the input
    allowed_task_ids,          \* the local allowed_task_ids (is_none for None)
    filter_error,              \* the except branch of the filter loading was taken
    selected_tasks,            \* the keys of trajectories after the loading
    \* analyze_trajectory_success.py: analyze_performance_files
    perf_listing,              \* the performance files in the order they are visited
    perf_cursor,               \* the position of the file visited next
    perf_index,                \* the local index (NoIndex while unbound)
    successful_indices,        \* the list successful_indices
    failed_indices,            \* the list failed_indices
    detailed_results,          \* the dict detailed_results
    perf_status,               \* running / completed / exit / aborted by an uncaught exception
    \* analyze_react_trajectories.py
    trajectory_files,          \* the files of trajectory_dir in the order they are visited
    rs_cursor,                 \* the position of the file visited next
    successful,                \* the local successful
    total_steps,               \* the local total_steps
    rs_trajectories,           \* the list results['trajectories']
    rs_metrics,                \* success_rate and avg_trajectory_length as fractions
    rs_status                  \* running / completed

flatVars == <<trajectory, flattened_traj, flattened_objects, has_state_action_pair,
              total_trajectories, invalid_after_flattening>>
dirVars == <<item, direction_info>>
filtVars == <<messages, strict_mode, filtered>>
procInputs == <<traj_steps, create_partials, apply_filters, max_tokens>>
procLocals == <<actions, observations, action_history, candidates, all_message_sets>>
procOutputs == <<training_samples, skipped_tasks, output_samples>>
procVars == <<procInputs, procLocals, procOutputs>>
ctxVars == <<ctx_messages, ctx_max_tokens, trimmed_messages, trimmed_tokens,
             retrimmed_messages, retrimmed_tokens>>
sanVars == <<san_role, san_content, san_max_tokens, sanitized>>
loadVars == <<loader, container, load_result, input_layout, lenient_mode>>
batchVars == <<batch_script, listing, cursor, processed, skipped, batch_status, results>>
reactVars == <<react_task, react_step, react_trajectory, react_failed, react_trajectories, saved_files, finetune_examples, react_status>>
capVars == <<caption_script, image_caption_cache, captioner_log, cache_before, last_images, last_captions, last_invoked>>
tfVars == <<filter_file, task_input_mode, available_tasks, allowed_task_ids, filter_error, selected_tasks>>
perfVars == <<perf_listing, perf_cursor, perf_index, successful_indices, failed_indices, detailed_results, perf_status>>
rsVars == <<trajectory_files, rs_cursor, successful, total_steps, rs_trajectories, rs_metrics, rs_status>>

vars == <<pc, flatVars, dirVars, filtVars, procVars, ctxVars, sanVars, loadVars, batchVars, reactVars, capVars, tfVars, perfVars, rsVars>>

\* What the actions of one script leave alone: the variables of the others.
othersOfFlatten == <<dirVars, filtVars, procVars, ctxVars, sanVars, loadVars, batchVars, reactVars, capVars, tfVars, perfVars, rsVars>>
othersOfDirection == <<flatVars, filtVars, procVars, ctxVars, sanVars, loadVars, batchVars, reactVars, capVars, tfVars, perfVars, rsVars>>
othersOfFilter == <<flatVars, dirVars, procVars, ctxVars, sanVars, loadVars, batchVars, reactVars, capVars, tfVars, perfVars, rsVars>>
othersOfProcess == <<flatVars, dirVars, filtVars, ctxVars, sanVars, loadVars, batchVars, reactVars, capVars, tfVars, perfVars, rsVars>>
othersOfContext == <<flatVars, dirVars, filtVars, procVars, sanVars, loadVars, batchVars, reactVars, capVars, tfVars, perfVars, rsVars>>
othersOfSanitize == <<flatVars, dirVars, filtVars, procVars, ctxVars, loadVars, batchVars, reactVars, capVars, tfVars, perfVars, rsVars>>
othersOfLoad == <<flatVars, dirVars, filtVars, procVars, ctxVars, sanVars, batchVars, reactVars, capVars, tfVars, perfVars, rsVars>>
othersOfBatch == <<flatVars, dirVars, filtVars, procVars, ctxVars, sanVars, loadVars, reactVars, capVars, tfVars, perfVars, rsVars>>
othersOfReact == <<flatVars, dirVars, filtVars, procVars, ctxVars, sanVars, loadVars, batchVars, capVars, tfVars, perfVars, rsVars>>
othersOfCaption == <<flatVars, dirVars, filtVars, procVars, ctxVars, sanVars, loadVars, batchVars, reactVars, tfVars, perfVars, rsVars>>
othersOfTaskFilter == <<flatVars, dirVars, filtVars, procVars, ctxVars, sanVars, loadVars, batchVars, reactVars, capVars, perfVars, rsVars>>
othersOfPerformance == <<flatVars, dirVars, filtVars, procVars, ctxVars, sanVars, loadVars, batchVars, reactVars, capVars, tfVars, rsVars>>
othersOfReactStats == <<flatVars, dirVars, filtVars, procVars, ctxVars, sanVars, loadVars, batchVars, reactVars, capVars, tfVars, perfVars>>

----------------------------------------------------------------------------
(* Text *)

RECURSIVE TextLen(_)
TextLen(s) == IF s = <<>> THEN 0 ELSE Len(Head(s)) + TextLen(Tail(s))

\* k in s
Contains(k, s) ==
    \E i \in 1..(Len(s) + 1) :
        /\ i + Len(k) - 1 <= Len(s)
        /\ SubSeq(s, i, i + Len(k) - 1) = k

LowerLexeme(a) ==
    CASE a = "We should" -> "we should"
      [] a = "Take a step back" -> "take a step back"
      [] a = "GO_BACK" -> "go_back"
      [] a = "Element not found" -> "element not found"
      [] a = "No Such Element" -> "no such element"
      [] a = "CLICK" -> "click"
      [] OTHER -> a

\* s.lower()
Lower(s) == [i \in 1..Len(s) |-> LowerLexeme(s[i])]

----------------------------------------------------------------------------
(* analysis/analyze_trajectories.py *)

BACKTRACK_KWD == <<"We should", " ", "take a step back">>
GO_BACK_KWD == <<"go_back">>

\* A trajectory item as the scripts see it: isDict is isinstance(item, dict),
\* hasRaw is hasattr(item, 'raw_prediction'), hasDirection is
\* hasattr(item, '_direction'); element_id "" is a missing or empty id; obs is
\* item['observation']['text'] of a State.
\* action_type "" is a missing action_type attribute; hasAnswer is
\* hasattr(item, 'answer').
MkState(obs) ==
    [isDict |-> TRUE, hasRaw |-> FALSE, raw |-> <<>>, hasDirection |-> FALSE,
     direction |-> "", element_id |-> "", obs |-> obs,
     action_type |-> "", hasAnswer |-> FALSE, answer |-> <<>>]

MkAction(raw, hasDir, dir, eid) ==
    [isDict |-> FALSE, hasRaw |-> TRUE, raw |-> raw, hasDirection |-> hasDir,
     direction |-> dir, element_id |-> eid, obs |-> <<>>,
     action_type |-> "click", hasAnswer |-> FALSE, answer |-> <<>>]

\* Neither a dict nor a record exposing raw_prediction ("State or other").
OtherItem ==
    [isDict |-> FALSE, hasRaw |-> FALSE, raw |-> <<>>, hasDirection |-> FALSE,
     direction |-> "", element_id |-> "", obs |-> <<>>,
     action_type |-> "", hasAnswer |-> FALSE, answer |-> <<>>]

get_direction_info_CaseInsensitivePhrase(it) ==
    IF it.hasDirection THEN it.direction
    ELSE IF it.hasRaw /\ (\/ Contains(Lower(BACKTRACK_KWD), Lower(it.raw))
                          \/ Contains(GO_BACK_KWD, Lower(it.raw)))
         THEN "backtrack"
         ELSE "forward"

get_direction_info(it) ==
    IF it.hasDirection THEN it.direction
    ELSE IF it.hasRaw /\ (\/ Contains(BACKTRACK_KWD, it.raw)
                          \/ Contains(GO_BACK_KWD, Lower(it.raw)))
         THEN "backtrack"
         ELSE "forward"

\* The loop of try_flattening (lines 104-110); copy.deepcopy yields an equal value.
RECURSIVE FlattenLoop_KeepAll(_)
FlattenLoop_KeepAll(traj) ==
    IF traj = <<>> THEN <<>>
    ELSE <<Head(traj)>> \o FlattenLoop_KeepAll(Tail(traj))

RECURSIVE FlattenLoop_DropFollowingState(_)
FlattenLoop_DropFollowingState(traj) ==
    IF traj = <<>> THEN <<>>
    ELSE IF Head(traj).hasRaw /\ get_direction_info(Head(traj)) = "backtrack"
         THEN FlattenLoop_DropFollowingState(
                  IF Len(traj) >= 2 /\ traj[2].isDict THEN Tail(Tail(traj))
                  ELSE Tail(traj))
         ELSE <<Head(traj)>> \o FlattenLoop_DropFollowingState(Tail(traj))

RECURSIVE FlattenLoop(_)
FlattenLoop(traj) ==
    IF traj = <<>> THEN <<>>
    ELSE IF Head(traj).hasRaw
         THEN IF get_direction_info(Head(traj)) # "backtrack"
              THEN <<Head(traj)>> \o FlattenLoop(Tail(traj))
              ELSE FlattenLoop(Tail(traj))
         ELSE <<Head(traj)>> \o FlattenLoop(Tail(traj))

\* The positions of traj whose items the loop of try_flattening appends.
RECURSIVE KeptPositions(_, _)
KeptPositions(traj, j) ==
    IF j > Len(traj) THEN <<>>
    ELSE (IF traj[j].hasRaw /\ get_direction_info(traj[j]) = "backtrack"
          THEN <<>> ELSE <<j>>)
         \o KeptPositions(traj, j + 1)

\* flattened_traj.append(item): the object appended is the item of the input.
deepcopy_SameObject(j) == [copy_of |-> j, same_object |-> TRUE]

\* copy.deepcopy(item) of the item at position j (lines 108 and 110): a new
\* object with the item's value.
deepcopy(j) == [copy_of |-> j, same_object |-> FALSE]

\* The objects of the list try_flattening returns (flattened_traj = [] of line
\* 102 is a new list).
FlattenedObjects(traj) ==
    LET kept == KeptPositions(traj, 1)
    IN  [i \in 1..Len(kept) |-> deepcopy(kept[i])]

\* The validity check of try_flattening (lines 113-117).
HasStateActionPair(flat) ==
    \E i \in 1..(Len(flat) - 1) : flat[i].isDict /\ flat[i + 1].hasRaw

try_flattening(traj) ==
    LET flat == FlattenLoop(traj)
    IN  <<flat, HasStateActionPair(flat)>>

\* Items the analysed files hold.
ObsWithElement == <<"[", "1", "]", " ", "link">>
ObsWithoutElement == <<"page">>
PlainRaw == <<"click", " ", "[", "1", "]">>

FlattenItems ==
    { MkState(ObsWithElement),
      MkState(ObsWithoutElement),
      MkAction(PlainRaw, FALSE, "", "1"),
      MkAction(BACKTRACK_KWD, FALSE, "", ""),
      MkAction(PlainRaw, TRUE, "backtrack", "1"),
      MkAction(<<"go_back">>, TRUE, "forward", ""),
      OtherItem }

MaxLen == 4
MaxFiles == 2

\* The variables of a script that is not running keep their initial values.
FlatIdle ==
    /\ trajectory = <<>>
    /\ flattened_traj = <<>>
    /\ flattened_objects = <<>>
    /\ has_state_action_pair = FALSE
    /\ total_trajectories = 0
    /\ invalid_after_flattening = 0

DirIdle ==
    /\ item = OtherItem
    /\ direction_info = ""

FiltIdle ==
    /\ messages = <<>>
    /\ strict_mode = TRUE
    /\ filtered = FALSE

ProcIdle ==
    /\ traj_steps = <<>>
    /\ create_partials = TRUE
    /\ apply_filters = TRUE
    /\ max_tokens = 0
    /\ actions = <<>>
    /\ observations = <<>>
    /\ action_history = <<>>
    /\ candidates = <<>>
    /\ all_message_sets = <<>>
    /\ training_samples = <<>>
    /\ skipped_tasks = <<>>
    /\ output_samples = <<>>

CtxIdle ==
    /\ ctx_messages = <<>>
    /\ ctx_max_tokens = 0
    /\ trimmed_messages = <<>>
    /\ trimmed_tokens = 0
    /\ retrimmed_messages = <<>>
    /\ retrimmed_tokens = 0

SanIdle ==
    /\ san_role = "system"
    /\ san_content = <<>>
    /\ san_max_tokens = 0
    /\ sanitized = <<>>

\* What a trajectory file unpickles to.  shape is "list" for a raw sequence of
\* steps, "trajectory" for a mapping with a trajectory key, "task_data" for a
\* mapping with a nested task_data.trajectory key, "dict_with_list" for another
\* mapping one of whose values is a list, "other_dict" for any other mapping
\* and "scalar" for anything else; steps is the step sequence it holds;
\* readable is FALSE when opening or unpickling raises; score is the value of
\* its score key (NoScore when absent); has_task_info tells a task_info key,
\* has_config a config.json beside the file.
NoScore == -1000

Container(shape, steps, readable, score, has_task_info, has_config) ==
    [shape |-> shape, steps |-> steps, readable |-> readable, score |-> score,
     has_task_info |-> has_task_info, has_config |-> has_config]

NoContainer == Container("scalar", <<>>, FALSE, NoScore, FALSE, FALSE)

\* None, or the trajectory extracted; included tells whether the script goes on
\* with it.
NoResult == [loaded |-> FALSE, trajectory |-> <<>>, score |-> NoScore, included |-> FALSE]

LoadIdle ==
    /\ loader = ""
    /\ container = NoContainer
    /\ load_result = NoResult
    /\ input_layout = "task_dirs"
    /\ lenient_mode = FALSE

\* results as analyze_trajectories initialises it (lines 80-92); success_rate
\* is kept as the fraction <<numerator, denominator>>.
NoResults ==
    [total_trajectories |-> 0, successful_tasks |-> 0, failed_tasks |-> 0,
     success_rate |-> <<0, 1>>]

BatchIdle ==
    /\ batch_script = ""
    /\ listing = <<>>
    /\ cursor = 1
    /\ processed = {}
    /\ skipped = {}
    /\ batch_status = "running"
    /\ results = NoResults

ReactIdle ==
    /\ react_task = 0
    /\ react_step = 0
    /\ react_trajectory = <<>>
    /\ react_failed = {}
    /\ react_trajectories = <<>>
    /\ saved_files = <<>>
    /\ finetune_examples = <<>>
    /\ react_status = "idle"

CapIdle ==
    /\ caption_script = ""
    /\ image_caption_cache = <<>>
    /\ captioner_log = <<>>
    /\ cache_before = <<>>
    /\ last_images = <<>>
    /\ last_captions = <<>>
    /\ last_invoked = <<>>

\* filter_file is None or names no existing file (line 378).
NoFilterFile == [kind |-> "absent", items |-> <<>>]

\* allowed_task_ids = None (line 377).
NoneIds == [is_none |-> TRUE, ids |-> {}]

TFIdle ==
    /\ filter_file = NoFilterFile
    /\ task_input_mode = ""
    /\ available_tasks = {}
    /\ allowed_task_ids = NoneIds
    /\ filter_error = FALSE
    /\ selected_tasks = {}

\* The local index before its first assignment (line 46).
NoIndex == -1

PerfIdle ==
    /\ perf_listing = <<>>
    /\ perf_cursor = 1
    /\ perf_index = NoIndex
    /\ successful_indices = <<>>
    /\ failed_indices = <<>>
    /\ detailed_results = <<>>
    /\ perf_status = "running"

\* success_rate and avg_trajectory_length as analyze_react_trajectories
\* initialises them (lines 20-21), each as a fraction <<numerator, denominator>>.
NoMetrics == [success_rate |-> <<0, 1>>, avg_trajectory_length |-> <<0, 1>>]

RSIdle ==
    /\ trajectory_files = <<>>
    /\ rs_cursor = 1
    /\ successful = 0
    /\ total_steps = 0
    /\ rs_trajectories = <<>>
    /\ rs_metrics = NoMetrics
    /\ rs_status = "running"

IdleButFlatten == DirIdle /\ FiltIdle /\ ProcIdle /\ CtxIdle /\ SanIdle /\ LoadIdle /\ BatchIdle /\ ReactIdle /\ CapIdle /\ TFIdle /\ PerfIdle /\ RSIdle
IdleButDirection == FlatIdle /\ FiltIdle /\ ProcIdle /\ CtxIdle /\ SanIdle /\ LoadIdle /\ BatchIdle /\ ReactIdle /\ CapIdle /\ TFIdle /\ PerfIdle /\ RSIdle
IdleButFilter == FlatIdle /\ DirIdle /\ ProcIdle /\ CtxIdle /\ SanIdle /\ LoadIdle /\ BatchIdle /\ ReactIdle /\ CapIdle /\ TFIdle /\ PerfIdle /\ RSIdle
IdleButProcess == FlatIdle /\ DirIdle /\ FiltIdle /\ CtxIdle /\ SanIdle /\ LoadIdle /\ BatchIdle /\ ReactIdle /\ CapIdle /\ TFIdle /\ PerfIdle /\ RSIdle
IdleButContext == FlatIdle /\ DirIdle /\ FiltIdle /\ ProcIdle /\ SanIdle /\ LoadIdle /\ BatchIdle /\ ReactIdle /\ CapIdle /\ TFIdle /\ PerfIdle /\ RSIdle
IdleButSanitize == FlatIdle /\ DirIdle /\ FiltIdle /\ ProcIdle /\ CtxIdle /\ LoadIdle /\ BatchIdle /\ ReactIdle /\ CapIdle /\ TFIdle /\ PerfIdle /\ RSIdle
IdleButLoad == FlatIdle /\ DirIdle /\ FiltIdle /\ ProcIdle /\ CtxIdle /\ SanIdle /\ BatchIdle /\ ReactIdle /\ CapIdle /\ TFIdle /\ PerfIdle /\ RSIdle
IdleButBatch == FlatIdle /\ DirIdle /\ FiltIdle /\ ProcIdle /\ CtxIdle /\ SanIdle /\ LoadIdle /\ ReactIdle /\ CapIdle /\ TFIdle /\ PerfIdle /\ RSIdle
IdleButReact == FlatIdle /\ DirIdle /\ FiltIdle /\ ProcIdle /\ CtxIdle /\ SanIdle /\ LoadIdle /\ BatchIdle /\ CapIdle /\ TFIdle /\ PerfIdle /\ RSIdle
IdleButCaption == FlatIdle /\ DirIdle /\ FiltIdle /\ ProcIdle /\ CtxIdle /\ SanIdle /\ LoadIdle /\ BatchIdle /\ ReactIdle /\ TFIdle /\ PerfIdle /\ RSIdle
IdleButTaskFilter == FlatIdle /\ DirIdle /\ FiltIdle /\ ProcIdle /\ CtxIdle /\ SanIdle /\ LoadIdle /\ BatchIdle /\ ReactIdle /\ CapIdle /\ PerfIdle /\ RSIdle
IdleButPerformance == FlatIdle /\ DirIdle /\ FiltIdle /\ ProcIdle /\ CtxIdle /\ SanIdle /\ LoadIdle /\ BatchIdle /\ ReactIdle /\ CapIdle /\ TFIdle /\ RSIdle
IdleButReactStats == FlatIdle /\ DirIdle /\ FiltIdle /\ ProcIdle /\ CtxIdle /\ SanIdle /\ LoadIdle /\ BatchIdle /\ ReactIdle /\ CapIdle /\ TFIdle /\ PerfIdle

InitFlatten ==
    /\ pc = "build"
    /\ FlatIdle
    /\ IdleButFlatten

\* The pickled file's content, one item at a time.
AppendItem ==
    /\ pc = "build"
    /\ Len(trajectory) < MaxLen
    /\ \E it \in FlattenItems : trajectory' = Append(trajectory, it)
    /\ UNCHANGED <<pc, flattened_traj, flattened_objects, has_state_action_pair,
                   total_trajectories, invalid_after_flattening>>
    /\ UNCHANGED othersOfFlatten

\* One iteration of the loop of analyze_trajectories (lines 160-202) with the
\* summary counters of lines 205 and 215: an empty trajectory is skipped.
AnalyzeFile ==
    /\ pc = "build"
    /\ total_trajectories < MaxFiles
    /\ IF trajectory = <<>>
       THEN UNCHANGED <<pc, flatVars>>
       ELSE LET r == try_flattening(trajectory)
            IN  /\ flattened_traj' = r[1]
                /\ flattened_objects' = FlattenedObjects(trajectory)
                /\ has_state_action_pair' = r[2]
                /\ total_trajectories' = total_trajectories + 1
                /\ invalid_after_flattening' =
                       invalid_after_flattening + (IF r[2] THEN 0 ELSE 1)
                /\ pc' = "analyzed"
                /\ UNCHANGED trajectory
    /\ UNCHANGED othersOfFlatten

\* The loop moves on to the next file: the iteration's locals are gone.
NextFile ==
    /\ pc = "analyzed"
    /\ pc' = "build"
    /\ trajectory' = <<>>
    /\ flattened_traj' = <<>>
    /\ flattened_objects' = <<>>
    /\ has_state_action_pair' = FALSE
    /\ UNCHANGED <<total_trajectories, invalid_after_flattening>>
    /\ UNCHANGED othersOfFlatten

\* A file holding a seven-item trajectory State, Action, State, Action, State,
\* Action, State, each State and each Action being any of the items above.
StateItems == { it \in FlattenItems : it.isDict }
ActionItems == { it \in FlattenItems : it.hasRaw }

LoadAlternatingFile ==
    /\ pc = "build"
    /\ trajectory = <<>>
    /\ \E s1 \in StateItems, s2 \in StateItems, s3 \in StateItems, s4 \in StateItems,
          a1 \in ActionItems, a2 \in ActionItems, a3 \in ActionItems :
          trajectory' = <<s1, a1, s2, a2, s3, a3, s4>>
    /\ UNCHANGED <<pc, flattened_traj, flattened_objects, has_state_action_pair,
                   total_trajectories, invalid_after_flattening>>
    /\ UNCHANGED othersOfFlatten

NextFlatten == AppendItem \/ LoadAlternatingFile \/ AnalyzeFile \/ NextFile

SpecFlatten == InitFlatten /\ [][NextFlatten]_vars

----------------------------------------------------------------------------
(* Properties of flattening, checked under SpecFlatten *)

IsBacktrackAction(it) == it.hasRaw /\ get_direction_info(it) = "backtrack"
IsForwardAction(it) == it.hasRaw /\ get_direction_info(it) # "backtrack"

\* flat is traj with some backtrack-classified Actions deleted and nothing else
\* deleted, moved or changed.
RECURSIVE OnlyBacktrackDeleted(_, _)
OnlyBacktrackDeleted(flat, traj) ==
    IF traj = <<>> THEN flat = <<>>
    ELSE \/ /\ flat # <<>>
            /\ Head(flat) = Head(traj)
            /\ OnlyBacktrackDeleted(Tail(flat), Tail(traj))
         \/ /\ IsBacktrackAction(Head(traj))
            /\ OnlyBacktrackDeleted(flat, Tail(traj))

IsState(it) == it.isDict

CountStates(seq) == Cardinality({ i \in 1..Len(seq) : IsState(seq[i]) })
CountForward(seq) == Cardinality({ i \in 1..Len(seq) : IsForwardAction(seq[i]) })

\* C1: the flattened trajectory holds no item that get_direction_info classifies
\* as backtrack, and it is no longer than the trajectory it was made from.
C1_NoBacktrackLeft ==
    pc = "analyzed" =>
        /\ \A i \in 1..Len(flattened_traj) :
               get_direction_info(flattened_traj[i]) # "backtrack"
        /\ Len(flattened_traj) <= Len(trajectory)

C1_Witness ==
    /\ pc = "analyzed"
    /\ \E i \in 1..Len(trajectory) : IsBacktrackAction(trajectory[i])
    /\ \E i \in 1..Len(trajectory) : IsForwardAction(trajectory[i])
    /\ Len(flattened_traj) < Len(trajectory)

\* C2: flattening deletes only backtrack-classified Actions: the result is a
\* subsequence of the trajectory that keeps every State and every forward Action,
\* in their original order.
C2_OnlyBacktrackRemoved ==
    pc = "analyzed" =>
        /\ OnlyBacktrackDeleted(flattened_traj, trajectory)
        /\ CountStates(flattened_traj) = CountStates(trajectory)
        /\ CountForward(flattened_traj) = CountForward(trajectory)

C2_Witness ==
    /\ pc = "analyzed"
    /\ Len(trajectory) = MaxLen
    /\ IsBacktrackAction(trajectory[2])
    /\ IsState(trajectory[3])
    /\ IsForwardAction(trajectory[4])
    /\ Len(flattened_traj) = MaxLen - 1

\* The trajectory of the example: exactly State, Action(forward), State,
\* Action(backtrack), State, Action(forward), State.
IsExampleTrajectory(traj) ==
    /\ Len(traj) = 7
    /\ \A i \in {1, 3, 5, 7} : IsState(traj[i])
    /\ IsForwardAction(traj[2])
    /\ IsBacktrackAction(traj[4])
    /\ IsForwardAction(traj[6])

\* C3 as stated: flattening the example trajectory removes exactly the middle
\* action and yields length 5.
C3_Original_LengthFive ==
    (pc = "analyzed" /\ IsExampleTrajectory(trajectory)) =>
        /\ flattened_traj = SubSeq(trajectory, 1, 3) \o SubSeq(trajectory, 5, 7)
        /\ Len(flattened_traj) = 5

\* C3 as amended: flattening the example trajectory removes exactly the middle
\* action and yields length 6 (the State after the removed action stays).
C3_MiddleActionRemoved ==
    (pc = "analyzed" /\ IsExampleTrajectory(trajectory)) =>
        /\ flattened_traj = SubSeq(trajectory, 1, 3) \o SubSeq(trajectory, 5, 7)
        /\ Len(flattened_traj) = 6

C3_Witness ==
    /\ pc = "analyzed"
    /\ IsExampleTrajectory(trajectory)
    /\ Len(flattened_traj) = 6

\* The three conditions of the edge-case policy on a flattened trajectory.
TooShort(flat) == Len(flat) < 2

FinalNotActionAfterState(flat) ==
    Len(flat) >= 2 /\ ~(flat[Len(flat)].hasRaw /\ flat[Len(flat) - 1].isDict)

FinalElementAbsent(flat) ==
    /\ Len(flat) >= 2
    /\ flat[Len(flat)].hasRaw
    /\ flat[Len(flat) - 1].isDict
    /\ flat[Len(flat)].element_id # ""
    /\ ~Contains(<<"[", flat[Len(flat)].element_id, "]">>, flat[Len(flat) - 1].obs)

\* C5: a flattened trajectory with fewer than 2 items, or whose final item is not
\* an Action immediately preceded by a State, or whose final Action names an
\* element id absent from the preceding State's observation text, is rejected
\* (reported invalid and counted in invalid_after_flattening).
C5_EdgeCasesRejected ==
    (/\ pc = "analyzed"
     /\ \/ TooShort(flattened_traj)
        \/ FinalNotActionAfterState(flattened_traj)
        \/ FinalElementAbsent(flattened_traj))
    => (~has_state_action_pair /\ invalid_after_flattening >= 1)

----------------------------------------------------------------------------
(* get_direction_info on its own, checked under SpecDirection *)

LowerPhrase == <<"we should", " ", "take a step back">>

RawTexts ==
    { <<>>,
      PlainRaw,
      BACKTRACK_KWD,
      <<"ok", " ">> \o BACKTRACK_KWD \o <<" ", "now">>,
      LowerPhrase,
      <<"take a step back">>,
      <<"go_back">>,
      <<"GO_BACK">>,
      <<"click", " ", "go_back", " ", "[", "1", "]">> }

DirectionItems ==
    { MkAction(raw, FALSE, "", eid) : raw \in RawTexts, eid \in {"", "1"} }
    \cup { MkAction(raw, TRUE, dir, eid) :
              raw \in RawTexts, dir \in {"forward", "backtrack"}, eid \in {"", "1"} }
    \cup { MkState(ObsWithElement), MkState(ObsWithoutElement), OtherItem }

InitDirection ==
    /\ pc = "start"
    /\ item \in DirectionItems
    /\ direction_info = ""
    /\ IdleButDirection

Classify ==
    /\ pc = "start"
    /\ direction_info' = get_direction_info(item)
    /\ pc' = "done"
    /\ UNCHANGED item
    /\ UNCHANGED othersOfDirection

NextDirection == Classify

SpecDirection == InitDirection /\ [][NextDirection]_vars

\* C4 as stated: an explicit direction attribute is returned; otherwise the
\* result is backtrack iff the rationale contains the backtrack phrase or the
\* go_back token, each as a case-insensitive substring; otherwise forward.
C4_Original_CaseInsensitive ==
    pc = "done" =>
        direction_info =
            IF item.hasDirection THEN item.direction
            ELSE IF item.hasRaw
                    /\ (\/ Contains(Lower(BACKTRACK_KWD), Lower(item.raw))
                        \/ Contains(Lower(GO_BACK_KWD), Lower(item.raw)))
                 THEN "backtrack"
                 ELSE "forward"

\* C4 as amended: an explicit direction attribute is returned; otherwise the
\* result is backtrack iff the rationale contains the backtrack phrase exactly as
\* written (case-sensitive) or the go_back token in any case; otherwise forward.
C4_DirectionPolicy ==
    pc = "done" =>
        /\ item.hasDirection => direction_info = item.direction
        /\ ~item.hasDirection =>
               /\ direction_info \in {"forward", "backtrack"}
               /\ direction_info = "backtrack" <=>
                      /\ item.hasRaw
                      /\ \/ Contains(BACKTRACK_KWD, item.raw)
                         \/ Contains(GO_BACK_KWD, Lower(item.raw))

C4_Witness ==
    /\ pc = "done"
    /\ ~item.hasDirection
    /\ item.raw = LowerPhrase
    /\ direction_info = "forward"

----------------------------------------------------------------------------
(* trajectory_collection/simplified_process_react.py: the message filter *)

IsSpace(a) == a \in {" ", "\n", "\t"}

\* s.strip()
RECURSIVE LStrip(_)
LStrip(s) == IF s # <<>> /\ IsSpace(Head(s)) THEN LStrip(Tail(s)) ELSE s

RECURSIVE RStrip(_)
RStrip(s) ==
    IF s # <<>> /\ IsSpace(s[Len(s)]) THEN RStrip(SubSeq(s, 1, Len(s) - 1)) ELSE s

Strip(s) == RStrip(LStrip(s))

error_keywords ==
    << <<"no matching element found">>,
       <<"element not found">>,
       <<"could not find element">>,
       <<"element not visible">>,
       <<"no such element">> >>

\* The keywords compared with the content as it is, not lowered.
_check_error_messages_CaseSensitive(content) ==
    \E k \in 1..Len(error_keywords) : Contains(error_keywords[k], content)

_check_error_messages(content) ==
    \E k \in 1..Len(error_keywords) : Contains(error_keywords[k], Lower(content))

\* The two phrases of the check of lines 351-353.
HasBacktrackIndicator(content) ==
    \/ Contains(<<"go_back">>, Lower(content))
    \/ Contains(<<"take a step back">>, Lower(content))

Turn(role, content) == [role |-> role, content |-> content]

\* range(1, len(messages) - 1) compares messages[i] with messages[i+1]; with
\* sequences counted from 1 these are the pairs (j, j+1) for j in 2..Len-1.
SameRoleAfterFirst(msgs) ==
    \E j \in 2..(Len(msgs) - 1) : msgs[j].role = msgs[j + 1].role

_filter_messages_NoAlternationCheck(msgs, strict) ==
    IF msgs = <<>> \/ Len(msgs) < 3 THEN TRUE
    ELSE IF msgs[Len(msgs)].role # "assistant" THEN TRUE
    ELSE LET content == msgs[Len(msgs)].content
         IN  IF content = <<>> \/ Strip(content) = <<>> THEN TRUE
             ELSE IF _check_error_messages(content) THEN TRUE
             ELSE IF HasBacktrackIndicator(content) THEN TRUE
             ELSE FALSE

_filter_messages_StrictOnly(msgs, strict) ==
    IF msgs = <<>> \/ Len(msgs) < 3 THEN TRUE
    ELSE IF SameRoleAfterFirst(msgs) THEN TRUE
    ELSE IF msgs[Len(msgs)].role # "assistant" THEN TRUE
    ELSE LET content == msgs[Len(msgs)].content
         IN  IF content = <<>> \/ Strip(content) = <<>> THEN TRUE
             ELSE IF _check_error_messages(content) THEN TRUE
             ELSE IF strict /\ HasBacktrackIndicator(content) THEN TRUE
             ELSE FALSE

\* strict is accepted and never read (lines 351-353: "Always use strict mode
\* checks").
_filter_messages(msgs, strict) ==
    IF msgs = <<>> \/ Len(msgs) < 3 THEN TRUE
    ELSE IF SameRoleAfterFirst(msgs) THEN TRUE
    ELSE IF msgs[Len(msgs)].role # "assistant" THEN TRUE
    ELSE LET content == msgs[Len(msgs)].content
         IN  IF content = <<>> \/ Strip(content) = <<>> THEN TRUE
             ELSE IF _check_error_messages(content) THEN TRUE
             ELSE IF HasBacktrackIndicator(content) THEN TRUE
             ELSE FALSE

\* Turns handed to the filter.
FilterTurns ==
    { Turn("system", <<"system prompt">>),
      Turn("user", <<"Task:", " ", "find", " ", "it">>),
      Turn("user", <<"go_back">>) }
    \cup { Turn("assistant", c) :
              c \in { <<>>, <<" ", "\n">>, PlainRaw, <<"click", " ", "GO_BACK">>,
                      <<"Take a step back">>, <<"Element not found">>,
                      <<"Error:", " ", "No Such Element">> } }

MaxMessages == 3

InitFilter ==
    /\ pc = "build"
    /\ messages = <<>>
    /\ strict_mode \in BOOLEAN
    /\ filtered = FALSE
    /\ IdleButFilter

AppendTurn ==
    /\ pc = "build"
    /\ Len(messages) < MaxMessages
    /\ \E t \in FilterTurns : messages' = Append(messages, t)
    /\ UNCHANGED <<pc, strict_mode, filtered>>
    /\ UNCHANGED othersOfFilter

FilterMessages ==
    /\ pc = "build"
    /\ filtered' = _filter_messages(messages, strict_mode)
    /\ pc' = "done"
    /\ UNCHANGED <<messages, strict_mode>>
    /\ UNCHANGED othersOfFilter

NextFilter == AppendTurn \/ FilterMessages

SpecFilter == InitFilter /\ [][NextFilter]_vars

\* C9 as stated: a turn list in which any two consecutive turns share a role,
\* the first two turns included, is rejected.
C9_Original_EveryAdjacentPair ==
    (/\ pc = "done"
     /\ \E j \in 1..(Len(messages) - 1) : messages[j].role = messages[j + 1].role)
    => filtered

\* C9 as amended: a turn list in which two consecutive turns after the first
\* turn share a role is rejected; the pair formed by the first two turns is not
\* compared.
C9_AdjacentPairsAfterFirst ==
    (/\ pc = "done"
     /\ \E j \in 2..(Len(messages) - 1) : messages[j].role = messages[j + 1].role)
    => filtered

C9_Witness ==
    /\ pc = "done"
    /\ Len(messages) = 3
    /\ messages[1].role = "system"
    /\ messages[2].role = "assistant"
    /\ messages[3] = Turn("assistant", PlainRaw)
    /\ filtered

\* A turn list with no defect other than a backtracking indicator in its final
\* content.
OnlyDefectIsBacktrackIndicator(msgs) ==
    /\ Len(msgs) >= 3
    /\ \A j \in 1..(Len(msgs) - 1) : msgs[j].role # msgs[j + 1].role
    /\ msgs[Len(msgs)].role = "assistant"
    /\ Strip(msgs[Len(msgs)].content) # <<>>
    /\ ~_check_error_messages(msgs[Len(msgs)].content)
    /\ HasBacktrackIndicator(msgs[Len(msgs)].content)

\* C10 as stated: a list whose final content holds a backtracking indicator is
\* rejected in strict mode, and a list whose only defect is such an indicator is
\* accepted when strict mode is disabled.
C10_Original_StrictModeGoverns ==
    pc = "done" =>
        /\ (/\ strict_mode
             /\ messages # <<>>
             /\ HasBacktrackIndicator(messages[Len(messages)].content)) => filtered
        /\ (~strict_mode /\ OnlyDefectIsBacktrackIndicator(messages)) => ~filtered

\* C10 as amended: a list whose final content holds a backtracking indicator is
\* rejected whether strict mode is enabled or disabled: strict_mode is not read.
C10_BacktrackAlwaysRejected ==
    (/\ pc = "done"
     /\ messages # <<>>
     /\ HasBacktrackIndicator(messages[Len(messages)].content))
    => filtered

C10_Witness ==
    /\ pc = "done"
    /\ ~strict_mode
    /\ OnlyDefectIsBacktrackIndicator(messages)
    /\ filtered

EndsWithErrorIndicator(msgs) ==
    /\ msgs # <<>>
    /\ msgs[Len(msgs)].role = "assistant"
    /\ \E k \in 1..Len(error_keywords) :
           Contains(error_keywords[k], Lower(msgs[Len(msgs)].content))

\* C11: every turn list whose final assistant content contains an error-indicator
\* keyword, in any letter case, is rejected by _filter_messages, whatever its
\* other turns are.
C11_ErrorIndicatorRejected ==
    (pc = "done" /\ EndsWithErrorIndicator(messages)) => filtered

\* A list whose only defect is the keyword inside a longer, mixed-case content.
C11_Witness ==
    /\ pc = "done"
    /\ Len(messages) = 3
    /\ messages[1].role = "system"
    /\ messages[2].role = "user"
    /\ messages[3] = Turn("assistant", <<"Error:", " ", "No Such Element">>)
    /\ ~HasBacktrackIndicator(messages[3].content)
    /\ filtered

----------------------------------------------------------------------------
(* trajectory_collection/simplified_process_react.py: sanitizing and trimming *)

\* count_tokens without a tokenizer (tiktoken not installed): len(text) // 4.
count_tokens(text) == TextLen(text) \div 4

\* text[:n] and text[-n:]; a cut never falls inside a lexeme of this model.
RECURSIVE TakeChars(_, _)
TakeChars(s, n) ==
    IF s = <<>> \/ Len(Head(s)) > n THEN <<>>
    ELSE <<Head(s)>> \o TakeChars(Tail(s), n - Len(Head(s)))

RECURSIVE LastChars(_, _)
LastChars(s, n) ==
    IF s = <<>> \/ Len(s[Len(s)]) > n THEN <<>>
    ELSE LastChars(SubSeq(s, 1, Len(s) - 1), n - Len(s[Len(s)])) \o <<s[Len(s)]>>

\* The number of leading lexemes of s equal to a.
RECURSIVE RunLen(_, _)
RunLen(s, a) == IF s # <<>> /\ Head(s) = a THEN 1 + RunLen(Tail(s), a) ELSE 0

\* re.sub(r'\n{3,}', '\n\n', content)
RECURSIVE CollapseNewlines(_)
CollapseNewlines(s) ==
    IF s = <<>> THEN <<>>
    ELSE IF Head(s) = "\n"
         THEN LET n == RunLen(s, "\n")
              IN  (IF n >= 3 THEN <<"\n", "\n">> ELSE SubSeq(s, 1, n))
                      \o CollapseNewlines(SubSeq(s, n + 1, Len(s)))
         ELSE <<Head(s)>> \o CollapseNewlines(Tail(s))

\* The four str.replace calls of lines 68-69, in their order.
DecodeEntity(a) ==
    LET b == IF a = "&lt;" THEN "<" ELSE IF a = "&gt;" THEN ">" ELSE a
    IN  IF b = "&amp;" THEN "&" ELSE IF b = "&quot;" THEN "\"" ELSE b

DecodeEntities(s) == [i \in 1..Len(s) |-> DecodeEntity(s[i])]

\* re.sub(r' +', ' ', content) and re.sub(r'\t+', ' ', content): a run of the
\* lexeme a becomes one space.
RECURSIVE CollapseRuns(_, _)
CollapseRuns(s, a) ==
    IF s = <<>> THEN <<>>
    ELSE IF Head(s) = a
         THEN <<" ">> \o CollapseRuns(SubSeq(s, RunLen(s, a) + 1, Len(s)), a)
         ELSE <<Head(s)>> \o CollapseRuns(Tail(s), a)

\* Lexemes that start a match of https?://[^\s<>"]+|www\.[^\s<>"]+ ; the match
\* runs on over the lexemes that follow, up to white space or one of < > ".
UrlLexemes == {"https://gitlab.com/a", "http://localhost", "www.example.com"}

EndsUrl(a) == IsSpace(a) \/ a \in {"<", ">", "\""}

RECURSIVE SkipUrl(_)
SkipUrl(s) == IF s = <<>> \/ EndsUrl(Head(s)) THEN s ELSE SkipUrl(Tail(s))

RECURSIVE _replace_links(_)
_replace_links(s) ==
    IF s = <<>> THEN <<>>
    ELSE IF Head(s) \in UrlLexemes
         THEN <<"[URL]">> \o _replace_links(SkipUrl(Tail(s)))
         ELSE <<Head(s)>> \o _replace_links(Tail(s))

MaxContentChars == 12000

\* The function without the cut of lines 61-62.
_filter_train_data_NoCap(content) ==
    LET c2 == CollapseNewlines(content)
        c3 == DecodeEntities(c2)
        c4 == CollapseRuns(c3, " ")
        c5 == CollapseRuns(c4, "\t")
    IN  _replace_links(c5)

_filter_train_data(content) ==
    LET c1 == IF TextLen(content) > MaxContentChars
              THEN TakeChars(content, MaxContentChars) \o <<"... [truncated]">>
              ELSE content
        c2 == CollapseNewlines(c1)
        c3 == DecodeEntities(c2)
        c4 == CollapseRuns(c3, " ")
        c5 == CollapseRuns(c4, "\t")
    IN  _replace_links(c5)

\* Matches of \b\d{20,}\b and of the e-mail pattern.
LongIdLexemes == {"12345678901234567890"}
EmailLexemes == {"root@example.com"}

MaxObservationLines == 500
KeptObservationLines == 250

\* The position of the j-th "\n" of s.
NthNewline(s, j) ==
    CHOOSE i \in 1..Len(s) :
        s[i] = "\n" /\ Cardinality({ m \in 1..i : s[m] = "\n" }) = j

_clean_observation(obs_text) ==
    LET o1 == [i \in 1..Len(obs_text) |->
                  IF obs_text[i] \in LongIdLexemes THEN "[LONG_ID]"
                  ELSE obs_text[i]]
        o2 == [i \in 1..Len(o1) |->
                  IF o1[i] \in EmailLexemes THEN "[EMAIL]" ELSE o1[i]]
        newlines == Cardinality({ i \in 1..Len(o2) : o2[i] = "\n" })
    IN  IF newlines + 1 > MaxObservationLines
        THEN SubSeq(o2, 1, NthNewline(o2, KeptObservationLines) - 1)
                 \o <<"\n", "...", "\n">>
                 \o SubSeq(o2, NthNewline(o2, newlines - KeptObservationLines + 1) + 1,
                           Len(o2))
        ELSE o2

RECURSIVE SumTokens(_)
SumTokens(msgs) ==
    IF msgs = <<>> THEN 0
    ELSE count_tokens(Head(msgs).content) + SumTokens(Tail(msgs))

\* The position of the first "Current webpage:" lexeme, 0 when there is none.
WebpageAt(content) ==
    IF \E i \in 1..Len(content) : content[i] = "Current webpage:"
    THEN CHOOSE i \in 1..Len(content) :
             /\ content[i] = "Current webpage:"
             /\ \A m \in 1..(i - 1) : content[m] # "Current webpage:"
    ELSE 0

AggressiveObsChars == 2000
AggressiveKeptChars == 1000
MaxAssistantChars == 2000

\* The body of the loop of _trainable_chat_postprocessing for one message
\* (lines 126-156), without the error check of the assistant turn.
PostprocessContent(role, content, aggressive_truncation) ==
    LET c1 == _filter_train_data(content)
        at == WebpageAt(c1)
        c2 == IF role = "user" /\ at > 0
              THEN LET intro == SubSeq(c1, 1, at)
                       obs1 == _clean_observation(SubSeq(c1, at + 1, Len(c1)))
                       obs2 == IF aggressive_truncation
                                  /\ TextLen(obs1) > AggressiveObsChars
                               THEN TakeChars(obs1, AggressiveKeptChars)
                                        \o <<"...[truncated]...">>
                                        \o LastChars(obs1, AggressiveKeptChars)
                               ELSE obs1
                   IN  intro \o obs2
              ELSE c1
    IN  IF role = "assistant" /\ TextLen(c2) > MaxAssistantChars
        THEN TakeChars(c2, MaxAssistantChars) \o <<"...[truncated]">>
        ELSE c2

\* None is modelled as the record [none |-> TRUE]: an assistant turn whose
\* filtered content holds an error keyword drops the sample.
_trainable_chat_postprocessing(msgs, maxTokens) ==
    LET aggressive_truncation == SumTokens(msgs) > maxTokens
    IN  IF \E i \in 1..Len(msgs) :
               /\ msgs[i].role = "assistant"
               /\ _check_error_messages(_filter_train_data(msgs[i].content))
        THEN [none |-> TRUE, messages |-> <<>>]
        ELSE [none |-> FALSE,
              messages |-> [i \in 1..Len(msgs) |->
                  Turn(msgs[i].role,
                       PostprocessContent(msgs[i].role, msgs[i].content,
                                          aggressive_truncation))]]

KeptTail == 6

\* A loop that re-inserts every middle message, whatever the budget.
RECURSIVE ReinsertMiddle_IgnoreBudget(_, _, _)
ReinsertMiddle_IgnoreBudget(kept, middle, remaining_budget) ==
    IF middle = <<>>
    THEN <<kept, remaining_budget>>
    ELSE ReinsertMiddle_IgnoreBudget(
             <<kept[1], Head(middle)>> \o Tail(kept),
             Tail(middle),
             remaining_budget - count_tokens(Head(middle).content))

\* The loop of lines 203-208: kept_messages.insert(1, msg) while msg fits.
RECURSIVE ReinsertMiddle(_, _, _)
ReinsertMiddle(kept, middle, remaining_budget) ==
    IF middle = <<>> \/ count_tokens(Head(middle).content) > remaining_budget
    THEN <<kept, remaining_budget>>
    ELSE ReinsertMiddle(
             <<kept[1], Head(middle)>> \o Tail(kept),
             Tail(middle),
             remaining_budget - count_tokens(Head(middle).content))

\* The function without the return of line 191 for short lists:
\* messages[-6:] of a short list is the whole list.
check_context_size_NoShortListReturn(msgs, maxTokens) ==
    IF msgs = <<>> THEN <<msgs, 0>>
    ELSE LET total_tokens == SumTokens(msgs)
         IN  IF total_tokens <= maxTokens THEN <<msgs, total_tokens>>
             ELSE LET from == IF Len(msgs) > KeptTail THEN Len(msgs) - KeptTail + 1 ELSE 1
                      tail == SubSeq(msgs, from, Len(msgs))
                      kept_messages == <<msgs[1]>> \o tail
                      kept_tokens == count_tokens(msgs[1].content) + SumTokens(tail)
                      middle_messages == SubSeq(msgs, 2, Len(msgs) - KeptTail)
                      r == ReinsertMiddle(kept_messages, middle_messages,
                                          maxTokens - kept_tokens)
                  IN  <<r[1], maxTokens - r[2]>>

\* Returns <<messages, token count>>.
check_context_size(msgs, maxTokens) ==
    IF msgs = <<>> THEN <<msgs, 0>>
    ELSE LET total_tokens == SumTokens(msgs)
         IN  IF total_tokens <= maxTokens THEN <<msgs, total_tokens>>
             ELSE IF Len(msgs) <= KeptTail + 1 THEN <<msgs, total_tokens>>
             ELSE LET tail == SubSeq(msgs, Len(msgs) - KeptTail + 1, Len(msgs))
                      kept_messages == <<msgs[1]>> \o tail
                      kept_tokens == count_tokens(msgs[1].content) + SumTokens(tail)
                      middle_messages == SubSeq(msgs, 2, Len(msgs) - KeptTail)
                      r == ReinsertMiddle(kept_messages, middle_messages,
                                          maxTokens - kept_tokens)
                  IN  <<r[1], maxTokens - r[2]>>

----------------------------------------------------------------------------
(* trajectory_collection/simplified_process_react.py: the turn builder *)

SystemPrompt ==
    <<"You are a helpful web assistant that completes tasks in a web browser. You will be given a task to complete and observations of the current webpage. Your goal is to complete the task by taking the most appropriate action.">>

\* ', '.join(history)
RECURSIVE JoinHistory(_)
JoinHistory(history) ==
    IF history = <<>> THEN <<>>
    ELSE IF Len(history) = 1 THEN Head(history)
    ELSE Head(history) \o <<",", " ">> \o JoinHistory(Tail(history))

Min(a, b) == IF a <= b THEN a ELSE b

\* Lines 601-610: the observation texts of the items that are dicts with an
\* "observation" whose text is not empty.
RECURSIVE ExtractObservations(_)
ExtractObservations(traj) ==
    IF traj = <<>> THEN <<>>
    ELSE IF Head(traj).isDict /\ Head(traj).obs # <<>>
         THEN <<Head(traj).obs>> \o ExtractObservations(Tail(traj))
         ELSE ExtractObservations(Tail(traj))

\* Line 614.
IsActionItem(it) ==
    ~it.isDict /\ (it.action_type # "" \/ it.hasRaw \/ it.hasAnswer)

\* Lines 616-627: raw_prediction, else answer, else str(item).
ActionText(it) ==
    IF it.hasRaw /\ it.raw # <<>> THEN it.raw
    ELSE IF it.hasAnswer /\ it.answer # <<>> THEN it.answer
    ELSE <<"<Action object>">>

\* Lines 632-636.
ActionStr(it) ==
    IF it.action_type # ""
    THEN <<it.action_type>>
             \o (IF it.element_id # ""
                 THEN <<" ", "on", " ", "element", " ", "[", it.element_id, "]">>
                 ELSE <<>>)
    ELSE <<"Action">>

RECURSIVE ExtractActions(_)
ExtractActions(traj) ==
    IF traj = <<>> THEN <<>>
    ELSE IF IsActionItem(Head(traj))
         THEN <<ActionText(Head(traj))>> \o ExtractActions(Tail(traj))
         ELSE ExtractActions(Tail(traj))

RECURSIVE ExtractActionStrs(_)
ExtractActionStrs(traj) ==
    IF traj = <<>> THEN <<>>
    ELSE IF IsActionItem(Head(traj))
         THEN <<ActionStr(Head(traj))>> \o ExtractActionStrs(Tail(traj))
         ELSE ExtractActionStrs(Tail(traj))

\* Lines 644-653.
Balance_KeepSurplusObservations(acts, obs, history) ==
    IF Len(acts) > Len(obs)
    THEN [actions |-> SubSeq(acts, 1, Len(obs)),
          observations |-> obs,
          action_history |-> SubSeq(history, 1, Min(Len(history), Len(obs)))]
    ELSE [actions |-> acts, observations |-> obs, action_history |-> history]

Balance(acts, obs, history) ==
    IF Len(acts) > Len(obs)
    THEN [actions |-> SubSeq(acts, 1, Len(obs)),
          observations |-> obs,
          action_history |-> SubSeq(history, 1, Min(Len(history), Len(obs)))]
    ELSE IF Len(obs) > Len(acts) + 1
    THEN [actions |-> acts,
          observations |-> SubSeq(obs, 1, Len(acts) + 1),
          action_history |-> history]
    ELSE [actions |-> acts, observations |-> obs, action_history |-> history]

\* Lines 278-286 and 694-702.
InitialPrompt(intent, obs, history) ==
    <<"Task:", " ">> \o intent \o <<"\n", "\n">>
        \o (IF obs # <<>> /\ obs[1] # <<>>
            THEN <<"Current webpage:", "\n">> \o obs[1] \o <<"\n", "\n">>
            ELSE <<>>)
        \o <<"Action history:", " ">>
        \o JoinHistory(SubSeq(history, 1, Min(1, Len(history))))

\* A user prompt that lists the whole action history it is given.
UserPrompt_WholeHistory(obs, history, i) ==
    <<"Current webpage:", "\n">> \o obs[i + 1] \o <<"\n", "\n">>
        \o <<"Action history:", " ">>
        \o JoinHistory(history)

\* Lines 298-302 and 714-718, for the Python index i >= 1.
UserPrompt(obs, history, i) ==
    <<"Current webpage:", "\n">> \o obs[i + 1] \o <<"\n", "\n">>
        \o <<"Action history:", " ">>
        \o JoinHistory(SubSeq(history, 1, Min(i + 1, Len(history))))

\* A builder that also emits the user turn of an observation left without
\* an action.
RECURSIVE LaterTurns_TrailingUser(_, _, _, _, _)
LaterTurns_TrailingUser(acts, obs, history, i, last) ==
    IF i > last
    THEN IF i + 1 <= Len(obs) THEN <<Turn("user", UserPrompt(obs, history, i))>>
         ELSE <<>>
    ELSE <<Turn("user", UserPrompt(obs, history, i)), Turn("assistant", acts[i + 1])>>
             \o LaterTurns_TrailingUser(acts, obs, history, i + 1, last)

\* The user and assistant turns of the Python indices from i up to last.
RECURSIVE LaterTurns(_, _, _, _, _)
LaterTurns(acts, obs, history, i, last) ==
    IF i > last THEN <<>>
    ELSE <<Turn("user", UserPrompt(obs, history, i)), Turn("assistant", acts[i + 1])>>
             \o LaterTurns(acts, obs, history, i + 1, last)

\* The turn list _create_partial_trajectories builds for end_idx (lines
\* 252-313); partial_observations[i] raises IndexError when the observations
\* run out, modelled as the record [error |-> TRUE].
PartialMessages(intent, history, obs, acts, end_idx) ==
    LET partial_actions == SubSeq(acts, 1, Min(end_idx, Len(acts)))
        partial_observations == SubSeq(obs, 1, Min(end_idx, Len(obs)))
        partial_action_history == SubSeq(history, 1, Min(end_idx + 1, Len(history)))
    IN  IF end_idx > Len(partial_observations) /\ end_idx > 1
        THEN [error |-> TRUE, messages |-> <<>>]
        ELSE [error |-> FALSE,
              messages |->
                  <<Turn("system", SystemPrompt),
                    Turn("user", InitialPrompt(intent, partial_observations,
                                               partial_action_history))>>
                  \o (IF partial_actions # <<>>
                      THEN <<Turn("assistant", partial_actions[1])>>
                      ELSE <<>>)
                  \o LaterTurns(partial_actions, partial_observations,
                                partial_action_history, 1, end_idx - 1)]

MaxTrajLength == 16

\* The turn list of the full-trajectory branch (lines 681-729).
FullMessages(intent, history, obs, acts) ==
    <<Turn("system", SystemPrompt), Turn("user", InitialPrompt(intent, obs, history))>>
        \o (IF acts # <<>> THEN <<Turn("assistant", acts[1])>> ELSE <<>>)
        \o LaterTurns(acts, obs, history, 1, Min(Len(acts), Len(obs)) - 1)

\* A loop that stops at the first rejected candidate.
RECURSIVE Accepted_StopAtFirstReject(_, _)
Accepted_StopAtFirstReject(seq, strict) ==
    IF seq = <<>> THEN <<>>
    ELSE IF _filter_messages(Head(seq), strict) THEN <<>>
    ELSE <<Head(seq)>> \o Accepted_StopAtFirstReject(Tail(seq), strict)

\* The members of seq that _filter_messages accepts, in order.
RECURSIVE Accepted(_, _)
Accepted(seq, strict) ==
    IF seq = <<>> THEN <<>>
    ELSE IF _filter_messages(Head(seq), strict) THEN Accepted(Tail(seq), strict)
    ELSE <<Head(seq)>> \o Accepted(Tail(seq), strict)

\* Lines 735-767 for the message sets from position k on: post-processing,
\* trimming, the length check, and the sample appended.
RECURSIVE SamplesFrom(_, _, _, _, _)
SamplesFrom(sets, k, applyFilters, maxTokens, intent) ==
    IF k > Len(sets) THEN <<>>
    ELSE LET post == IF applyFilters
                     THEN _trainable_chat_postprocessing(sets[k], maxTokens)
                     ELSE [none |-> FALSE, messages |-> sets[k]]
             sized == check_context_size(post.messages, maxTokens)
             rest == SamplesFrom(sets, k + 1, applyFilters, maxTokens, intent)
         IN  IF post.none \/ sized[1] = <<>> \/ Len(sized[1]) < 3 THEN rest
             ELSE <<[messages |-> sized[1],
                     metadata |-> [intent |-> intent,
                                   num_actions |-> Len(sized[1]) \div 2,
                                   num_observations |-> Len(sized[1]) \div 2,
                                   token_count |-> sized[2]]]>> \o rest

----------------------------------------------------------------------------
(* process_trajectories for one task, checked under SpecProcess *)

\* The intent of a trajectory loaded from a bare list (line 480).
TaskIntent == <<"Task intent not available">>

ObsText == <<"[", "1", "]", " ", " ", "link", " ", "https://gitlab.com/a">>

ProcessItems ==
    { MkState(ObsText),
      MkAction(PlainRaw, FALSE, "", "1") }

MaxSteps == 8
DefaultMaxTokens == 16000
TightBudget == 153
MaxTokensChoices == {TightBudget, DefaultMaxTokens}
MAX_SAMPLES == 500

InitProcess ==
    /\ pc = "build"
    /\ ProcIdle
    /\ IdleButProcess

\* The pickled trajectory of the task, one step at a time.
AppendStep ==
    /\ pc = "build"
    /\ Len(traj_steps) < MaxSteps
    /\ \E it \in ProcessItems : traj_steps' = Append(traj_steps, it)
    /\ UNCHANGED <<pc, create_partials, apply_filters, max_tokens,
                   procLocals, procOutputs>>
    /\ UNCHANGED othersOfProcess

\* One iteration of the loop over trajectories.items() (lines 562-772); the
\* command line passes strict_mode=True (line 857).
ProcessTask ==
    /\ pc = "build"
    /\ \E partials \in BOOLEAN, filters \in BOOLEAN, budget \in MaxTokensChoices :
        LET bal == Balance(ExtractActions(traj_steps),
                           ExtractObservations(traj_steps),
                           <<<<"None">>>> \o ExtractActionStrs(traj_steps))
            num_actions == Min(Len(bal.actions), MaxTrajLength \div 2)
            partial == [k \in 1..num_actions |->
                           PartialMessages(TaskIntent, bal.action_history,
                                           bal.observations, bal.actions, k)]
            raised == partials /\ \E k \in 1..num_actions : partial[k].error
            built == IF partials
                     THEN [k \in 1..num_actions |-> partial[k].messages]
                     ELSE <<FullMessages(TaskIntent, bal.action_history,
                                         bal.observations, bal.actions)>>
            skip == IF bal.actions = <<>> THEN "no_actions"
                    ELSE IF bal.observations = <<>> THEN "no_observations"
                    ELSE IF raised THEN "error"
                    ELSE ""
        IN  /\ create_partials' = partials
            /\ apply_filters' = filters
            /\ max_tokens' = budget
            /\ actions' = bal.actions
            /\ observations' = bal.observations
            /\ action_history' = bal.action_history
            /\ candidates' = IF skip = "" THEN built ELSE <<>>
            /\ all_message_sets' = IF skip = "" THEN Accepted(built, TRUE) ELSE <<>>
            /\ training_samples' =
                   IF skip = ""
                   THEN training_samples
                            \o SamplesFrom(Accepted(built, TRUE), 1, filters, budget,
                                           TaskIntent)
                   ELSE training_samples
            /\ skipped_tasks' =
                   IF skip = "" THEN skipped_tasks
                   ELSE Append(skipped_tasks, [reason |-> skip])
    /\ pc' = "processed"
    /\ UNCHANGED <<traj_steps, output_samples>>
    /\ UNCHANGED othersOfProcess

\* Lines 779-803: at most MAX_SAMPLES samples, shuffled when there are more, are
\* written.
WriteOutput ==
    /\ pc = "processed"
    /\ IF Len(training_samples) > MAX_SAMPLES
       THEN \E f \in [1..MAX_SAMPLES -> 1..Len(training_samples)] :
                /\ \A i, j \in 1..MAX_SAMPLES : i # j => f[i] # f[j]
                /\ output_samples' = [i \in 1..MAX_SAMPLES |-> training_samples[f[i]]]
       ELSE output_samples' = training_samples
    /\ pc' = "written"
    /\ UNCHANGED <<procInputs, procLocals, training_samples, skipped_tasks>>
    /\ UNCHANGED othersOfProcess

NextProcess == AppendStep \/ ProcessTask \/ WriteOutput

SpecProcess == InitProcess /\ [][NextProcess]_vars

NoTwoConsecutiveSameRole(msgs) ==
    \A j \in 1..(Len(msgs) - 1) : msgs[j].role # msgs[j + 1].role

WellFormedExample(msgs) ==
    /\ Len(msgs) >= 3
    /\ msgs[Len(msgs)].role = "assistant"
    /\ msgs[Len(msgs)].content # <<>>
    /\ NoTwoConsecutiveSameRole(msgs)

\* C6: every training sample written is a well-formed TrainingExample: at least
\* 3 turns, a final assistant turn with non-empty content, and no two consecutive
\* turns of the same role.
C6_WrittenSamplesWellFormed ==
    pc = "written" =>
        \A k \in 1..Len(output_samples) : WellFormedExample(output_samples[k].messages)

\* The roles of a built turn list: system, then user, assistant, user, ...
RolesAlternateAfterSystem(msgs) ==
    /\ msgs # <<>>
    /\ msgs[1].role = "system"
    /\ \A j \in 2..Len(msgs) :
           msgs[j].role = IF j % 2 = 0 THEN "user" ELSE "assistant"

\* C7: every turn list the turn builder produces, by the partial-prefix builder
\* and by the full-trajectory builder, alternates user and assistant after the
\* system turn and ends on an assistant turn.
C7_BuiltTurnsAlternate ==
    pc \in {"processed", "written"} =>
        \A k \in 1..Len(candidates) :
            /\ RolesAlternateAfterSystem(candidates[k])
            /\ candidates[k][Len(candidates[k])].role = "assistant"

C7_Witness ==
    /\ pc = "processed"
    /\ ~create_partials
    /\ Len(observations) = Len(actions) + 1
    /\ Len(candidates) = 1
    /\ Len(candidates[1]) = 7

\* The trajectory invariant: length at least 2 and strict alternation of State
\* and Action.
IsStateStep(it) == it.isDict

WellFormedTrajectory(traj) ==
    /\ Len(traj) >= 2
    /\ \A j \in 1..(Len(traj) - 1) : IsStateStep(traj[j]) # IsStateStep(traj[j + 1])

AssistantTurns(msgs) == Cardinality({ j \in 1..Len(msgs) : msgs[j].role = "assistant" })

\* C8 as stated: a trajectory that violates the trajectory invariant yields no
\* training example.
C8_Original_InvalidDiscarded ==
    (pc \in {"processed", "written"} /\ ~WellFormedTrajectory(traj_steps))
    => training_samples = <<>>

\* C8 as amended: a trajectory that violates the trajectory invariant is repaired,
\* not discarded: surplus actions are cut to the number of observations, surplus
\* observations to the number of actions plus one, and the remainder is paired;
\* no training example is produced only when no action or no observation is
\* left, and no example has more assistant turns than there are paired actions.
C8_RepairedByTruncation ==
    pc \in {"processed", "written"} =>
        /\ training_samples # <<>> =>
               /\ Len(actions) >= 1
               /\ Len(actions) <= Len(observations)
               /\ Len(observations) <= Len(actions) + 1
               /\ Len(actions) <= Len(ExtractActions(traj_steps))
               /\ Len(observations) <= Len(ExtractObservations(traj_steps))
               /\ \A k \in 1..Len(training_samples) :
                      AssistantTurns(training_samples[k].messages) <= Len(actions)
        /\ (ExtractActions(traj_steps) = <<>> \/ ExtractObservations(traj_steps) = <<>>)
               => training_samples = <<>>

C8_Witness ==
    /\ pc = "processed"
    /\ ~WellFormedTrajectory(traj_steps)
    /\ Len(ExtractObservations(traj_steps)) > Len(ExtractActions(traj_steps)) + 1
    /\ Len(observations) = Len(actions) + 1
    /\ training_samples # <<>>

----------------------------------------------------------------------------
(* process_trajectories on trajectories whose steps are told apart, checked
   under SpecTurns: the step at position i carries the text of i. *)

TaggedState(i) == MkState(<<"page", " ", ToString(i)>>)
EmptyState == MkState(<<>>)
TaggedAction(i) == MkAction(<<"click", " ", "[", ToString(i), "]">>, FALSE, "", ToString(i))
TaggedErrorAction(i) ==
    MkAction(<<"Element not found", " ", ToString(i)>>, FALSE, "", ToString(i))

TaggedItems(i) == {TaggedState(i), EmptyState, TaggedAction(i), TaggedErrorAction(i)}

MaxTaggedSteps == 4
LongActions == 9

InitTurns ==
    /\ pc = "build"
    /\ ProcIdle
    /\ IdleButProcess

AppendTaggedStep ==
    /\ pc = "build"
    /\ Len(traj_steps) < MaxTaggedSteps
    /\ \E it \in TaggedItems(Len(traj_steps) + 1) : traj_steps' = Append(traj_steps, it)
    /\ UNCHANGED <<pc, create_partials, apply_filters, max_tokens,
                   procLocals, procOutputs>>
    /\ UNCHANGED othersOfProcess

\* A recorded episode of LongActions State/Action pairs, at most one of its
\* actions reporting an error; its actions name no target element.
LoadLongTrajectory ==
    /\ pc = "build"
    /\ traj_steps = <<>>
    /\ \E e \in 0..LongActions :
           traj_steps' = [i \in 1..(2 * LongActions) |->
                             IF i % 2 = 1 THEN TaggedState(i)
                             ELSE IF i = 2 * e
                                  THEN [TaggedErrorAction(i) EXCEPT !.element_id = ""]
                             ELSE [TaggedAction(i) EXCEPT !.element_id = ""]]
    /\ UNCHANGED <<pc, create_partials, apply_filters, max_tokens,
                   procLocals, procOutputs>>
    /\ UNCHANGED othersOfProcess

NextTurns == AppendTaggedStep \/ LoadLongTrajectory \/ ProcessTask \/ WriteOutput

SpecTurns == InitTurns /\ [][NextTurns]_vars

IsAcceptedCandidate(k) == ~_filter_messages(candidates[k], TRUE)

\* C12: in partial-trajectory mode, with n actions passed to
\* _create_partial_trajectories and at most m = max_traj_length // 2 actions
\* considered, one candidate is built per prefix length k = 1..min(n, m), the
\* k-th with exactly k assistant turns, and candidate k is emitted if and only
\* if it passes _filter_messages by itself; the emitted ones keep their order.
C12_OneCandidatePerPrefix ==
    (pc \in {"processed", "written"} /\ create_partials
        /\ actions # <<>> /\ observations # <<>>)
    => /\ Len(candidates) = Min(Len(actions), MaxTrajLength \div 2)
       /\ \A k \in 1..Len(candidates) : AssistantTurns(candidates[k]) = k
       /\ \A k \in 1..Len(candidates) :
              IsAcceptedCandidate(k)
                  <=> \E i \in 1..Len(all_message_sets) : all_message_sets[i] = candidates[k]
       /\ Len(all_message_sets)
              = Cardinality({k \in 1..Len(candidates) : IsAcceptedCandidate(k)})
       /\ \A i, j \in 1..Len(all_message_sets) :
              i < j => Len(all_message_sets[i]) < Len(all_message_sets[j])

\* More actions than the maximum, and a rejected first prefix followed by
\* emitted ones.
C12_Witness ==
    /\ pc = "processed"
    /\ create_partials
    /\ Len(actions) > MaxTrajLength \div 2
    /\ Len(candidates) = MaxTrajLength \div 2
    /\ ~IsAcceptedCandidate(1)
    /\ IsAcceptedCandidate(2)
    /\ Len(all_message_sets) = Len(candidates) - 1

\* The position in traj of its j-th Action.
NthActionPos(traj, j) ==
    CHOOSE p \in 1..Len(traj) :
        /\ IsActionItem(traj[p])
        /\ Cardinality({q \in 1..p : IsActionItem(traj[q])}) = j

\* "None" and the descriptors of the first n Actions of traj.
HistoryBefore(traj, n) ==
    <<<<"None">>>> \o [j \in 1..n |-> ActionStr(traj[NthActionPos(traj, j)])]

EndsWith(s, suffix) ==
    /\ Len(suffix) <= Len(s)
    /\ SubSeq(s, Len(s) - Len(suffix) + 1, Len(s)) = suffix

\* Turn list c follows traj in its j-th user and assistant turns.
TurnFollowsTrajectory(c, traj, j) ==
    LET p == NthActionPos(traj, j)
        user == c[2 * j].content
    IN  /\ c[2 * j + 1].content = ActionText(traj[p])
        /\ p > 1
        /\ IsStateStep(traj[p - 1])
        /\ Contains(<<"Current webpage:", "\n">> \o traj[p - 1].obs
                        \o <<"\n", "\n", "Action history:">>, user)
        /\ EndsWith(user, <<"Action history:", " ">>
                              \o JoinHistory(HistoryBefore(traj, j - 1)))

\* C13: in every turn list built from a trajectory, the j-th assistant turn holds
\* the rationale of the j-th Action, the j-th user turn holds the observation
\* text of the State immediately before that Action, and its action history is
\* "None" followed by the descriptors of the j-1 earlier Actions, in order.
C13_TurnsFollowTrajectory ==
    pc \in {"processed", "written"} =>
        \A k \in 1..Len(candidates) :
            \A j \in 1..AssistantTurns(candidates[k]) :
                TurnFollowsTrajectory(candidates[k], traj_steps, j)

----------------------------------------------------------------------------
(* check_context_size on its own, checked under SpecContext: a turn list of a
   system turn and alternating user and assistant turns, each short (1 token)
   or long (10 tokens) and carrying its position. *)

ShortContent(i) == <<"turn", " ", ToString(i)>>
LongContent(i) == <<"a long observation of the current page", " ", ToString(i)>>

RoleAt(i) == IF i = 1 THEN "system" ELSE IF i % 2 = 0 THEN "user" ELSE "assistant"

MaxCtxMessages == 10
CtxBudgets == {5, 10, 40}

InitContext ==
    /\ pc = "build"
    /\ CtxIdle
    /\ IdleButContext

AppendCtxTurn ==
    /\ pc = "build"
    /\ Len(ctx_messages) < MaxCtxMessages
    /\ LET i == Len(ctx_messages) + 1
       IN  \E c \in {ShortContent(i), LongContent(i)} :
               ctx_messages' = Append(ctx_messages, Turn(RoleAt(i), c))
    /\ UNCHANGED <<pc, ctx_max_tokens, trimmed_messages, trimmed_tokens,
                   retrimmed_messages, retrimmed_tokens>>
    /\ UNCHANGED othersOfContext

\* messages, total_tokens = check_context_size(messages, tokenizer, max_tokens)
CheckContextSize ==
    /\ pc = "build"
    /\ \E budget \in CtxBudgets :
           /\ ctx_max_tokens' = budget
           /\ trimmed_messages' = check_context_size(ctx_messages, budget)[1]
           /\ trimmed_tokens' = check_context_size(ctx_messages, budget)[2]
    /\ pc' = "checked"
    /\ UNCHANGED <<ctx_messages, retrimmed_messages, retrimmed_tokens>>
    /\ UNCHANGED othersOfContext

\* The same call on the list the first call returned.
CheckContextSizeAgain ==
    /\ pc = "checked"
    /\ retrimmed_messages' = check_context_size(trimmed_messages, ctx_max_tokens)[1]
    /\ retrimmed_tokens' = check_context_size(trimmed_messages, ctx_max_tokens)[2]
    /\ pc' = "rechecked"
    /\ UNCHANGED <<ctx_messages, ctx_max_tokens, trimmed_messages, trimmed_tokens>>
    /\ UNCHANGED othersOfContext

NextContext == AppendCtxTurn \/ CheckContextSize \/ CheckContextSizeAgain

SpecContext == InitContext /\ [][NextContext]_vars

Checked == pc \in {"checked", "rechecked"}

OverBudget == SumTokens(ctx_messages) > ctx_max_tokens

LastTurns(msgs, n) == SubSeq(msgs, Len(msgs) - n + 1, Len(msgs))

\* C14 as stated: the turn list check_context_size returns never has more
\* tokens than max_tokens.
C14_Original_NeverOverBudget ==
    Checked => SumTokens(trimmed_messages) <= ctx_max_tokens

\* C14 as amended: the returned token count is the total of the returned list,
\* and the list exceeds max_tokens only when it is the whole input of at most 7
\* turns, or just the system turn and the final 6 turns of a longer input,
\* nothing else being kept.
C14_OverBudgetOnlyForKeptTurns ==
    Checked =>
        /\ trimmed_tokens = SumTokens(trimmed_messages)
        /\ \/ trimmed_tokens <= ctx_max_tokens
           \/ Len(ctx_messages) <= KeptTail + 1 /\ trimmed_messages = ctx_messages
           \/ /\ Len(ctx_messages) > KeptTail + 1
              /\ trimmed_messages = <<ctx_messages[1]>> \o LastTurns(ctx_messages, KeptTail)

\* A longer list cut down to the system turn and the last 6 turns, still over
\* the budget.
C14_Witness ==
    /\ pc = "checked"
    /\ Len(ctx_messages) > KeptTail + 1
    /\ Len(trimmed_messages) = KeptTail + 1
    /\ trimmed_tokens > ctx_max_tokens

\* The position in the input of a turn (every turn carries its position).
PositionOf(turn) == CHOOSE p \in 1..Len(ctx_messages) : ctx_messages[p] = turn

IsOrderPreservingSubsequence(result) ==
    /\ \A i \in 1..Len(result) : \E p \in 1..Len(ctx_messages) : ctx_messages[p] = result[i]
    /\ \A i, j \in 1..Len(result) :
           i < j => PositionOf(result[i]) < PositionOf(result[j])

\* C15: when check_context_size trims an over-budget turn list, the result
\* starts with the original system turn, ends with the original final 6 turns,
\* and holds between them re-inserted earlier turns in their original order: it
\* is an order-preserving subsequence of the input.
C15_TrimKeepsOrder ==
    (Checked /\ OverBudget /\ Len(ctx_messages) > KeptTail + 1) =>
        /\ trimmed_messages[1] = ctx_messages[1]
        /\ LastTurns(trimmed_messages, KeptTail) = LastTurns(ctx_messages, KeptTail)
        /\ IsOrderPreservingSubsequence(trimmed_messages)

\* C16: check_context_size returns a turn list within the budget unchanged, and
\* returns its own result unchanged, with the same token count.
C16_TrimIdempotent ==
    /\ (Checked /\ ~OverBudget) =>
           /\ trimmed_messages = ctx_messages
           /\ trimmed_tokens = SumTokens(ctx_messages)
    /\ pc = "rechecked" =>
           /\ retrimmed_messages = trimmed_messages
           /\ retrimmed_tokens = trimmed_tokens

\* A list that the first call did cut, and with a re-inserted turn.
C16_Witness ==
    /\ pc = "rechecked"
    /\ OverBudget
    /\ Len(trimmed_messages) < Len(ctx_messages)
    /\ Len(trimmed_messages) > KeptTail + 1
    /\ retrimmed_messages = trimmed_messages
----------------------------------------------------------------------------
(* _trainable_chat_postprocessing on one turn with a long content, checked
   under SpecSanitize.  The content is made of lines of LineChars characters;
   a line is split into lexemes where the code can cut it. *)

\* A string of n characters.
RECURSIVE Block(_)
Block(n) ==
    IF n = 0 THEN ""
    ELSE IF n % 2 = 1 THEN "x" \o Block(n - 1)
    ELSE LET h == Block(n \div 2) IN h \o h

LineChars == 1000
IntroChars == 16
MarkerChars == 15

\* The text of line i, which starts with the number of the line.
LineText(i) == ToString(i) \o Block(LineChars - IntroChars - 1 - Len(ToString(i)))

\* Line i of a content: IntroChars characters, the text, and the newline.
FieldLine(i) == <<Block(MarkerChars), Block(IntroChars - MarkerChars), LineText(i), "\n">>

\* The first line of a user turn starts with the literal of the f-string.
FirstLine(role) ==
    IF role = "user" THEN <<"Current webpage:", LineText(1), "\n">> ELSE FieldLine(1)

SanRoles == {"system", "user", "assistant"}
MaxFieldLines == 16

InitSanitize ==
    /\ pc = "build"
    /\ san_role \in SanRoles
    /\ san_content = FirstLine(san_role)
    /\ san_max_tokens = 0
    /\ sanitized = <<>>
    /\ IdleButSanitize

FieldLines == Cardinality({i \in 1..Len(san_content) : san_content[i] = "\n"})

AppendFieldLine ==
    /\ pc = "build"
    /\ FieldLines < MaxFieldLines
    /\ san_content' = san_content \o FieldLine(FieldLines + 1)
    /\ UNCHANGED <<pc, san_role, san_max_tokens, sanitized>>
    /\ UNCHANGED othersOfSanitize

\* processed_messages = _trainable_chat_postprocessing(messages, tokenizer,
\* max_tokens) for the list of this one turn.
SanitizeTurn ==
    /\ pc = "build"
    /\ \E budget \in MaxTokensChoices :
           /\ san_max_tokens' = budget
           /\ sanitized' =
                  _trainable_chat_postprocessing(<<Turn(san_role, san_content)>>,
                                                 budget).messages[1].content
    /\ pc' = "sanitized"
    /\ UNCHANGED <<san_role, san_content>>
    /\ UNCHANGED othersOfSanitize

NextSanitize == AppendFieldLine \/ SanitizeTurn

SpecSanitize == InitSanitize /\ [][NextSanitize]_vars

HeadFragment == LineText(1)
TailFragment == LineText(FieldLines)

OverCap == TextLen(san_content) > MaxContentChars

AggressiveTruncation == SumTokens(<<Turn(san_role, san_content)>>) > san_max_tokens

----------------------------------------------------------------------------
(* The trajectory loaders, checked under SpecLoad *)

\* analyze_o4_mini_trajectories.py, load_trajectory (lines 15-37); the caller
\* skips the file when the trajectory is None (lines 108-110).
load_trajectory(c) ==
    IF ~c.readable THEN NoResult
    ELSE IF c.shape \in {"trajectory", "task_data"}
    THEN [loaded |-> TRUE, trajectory |-> c.steps, score |-> c.score, included |-> TRUE]
    ELSE IF c.shape = "list"
    THEN [loaded |-> TRUE, trajectory |-> c.steps, score |-> NoScore, included |-> TRUE]
    ELSE NoResult

\* simplified_process_react.py, lines 446-487: trajectories[task_id] is set, or
\* not.
LoadSimplifiedFile(c) ==
    IF ~c.readable THEN NoResult
    ELSE IF c.shape \in {"trajectory", "task_data", "other_dict"}
    THEN [loaded |-> TRUE, trajectory |-> c.steps, score |-> NoScore, included |-> TRUE]
    ELSE IF c.shape \in {"dict_with_list", "list"} /\ Len(c.steps) > 0
    THEN [loaded |-> TRUE, trajectory |-> c.steps, score |-> NoScore, included |-> TRUE]
    ELSE NoResult

\* fixed_process_react.py, lines 228-253: trajectory stays None unless the data
\* is a mapping of one of the two known kinds; the pair is appended to
\* success_trajs only with a non-empty trajectory and a task_info, which comes
\* from config.json, the task_info key, or the task_data branch.
LoadFixedFile(c) ==
    IF ~c.readable THEN NoResult
    ELSE IF c.shape \in {"trajectory", "task_data"}
    THEN [loaded |-> TRUE, trajectory |-> c.steps, score |-> NoScore,
          included |-> /\ Len(c.steps) > 0
                       /\ (c.has_config \/ c.shape = "task_data" \/ c.has_task_info)]
    ELSE NoResult

\* fixed_process_react.py, lines 283-316, the branch for a directory of flat
\* files: there is no config.json, and the pair is appended to success_trajs
\* only in lenient mode or when the data has a score greater than 0.
LoadFixedFlatFile(c, lenient) ==
    IF ~c.readable THEN NoResult
    ELSE IF c.shape \in {"trajectory", "task_data"}
    THEN [loaded |-> TRUE, trajectory |-> c.steps, score |-> c.score,
          included |-> /\ Len(c.steps) > 0
                       /\ (c.shape = "task_data" \/ c.has_task_info)
                       /\ (lenient \/ (c.score # NoScore /\ c.score > 0))]
    ELSE NoResult

\* The two layouts of the input directory (lines 188-197).
Layouts == {"task_dirs", "flat_files"}

Loaders == {"analyze_o4_mini", "simplified_process_react", "fixed_process_react"}

Shapes == {"list", "trajectory", "task_data", "dict_with_list", "other_dict", "scalar"}

PlainSteps == <<MkState(ObsText), MkAction(PlainRaw, FALSE, "", "1")>>

StepSequences == {<<>>, PlainSteps, PlainSteps \o <<MkState(ObsText)>>}

Scores == {NoScore, 0, 1}

Containers ==
    { Container(sh, st, rd, sc, ti, cf) :
          sh \in Shapes, st \in StepSequences, rd \in BOOLEAN, sc \in Scores,
          ti \in BOOLEAN, cf \in BOOLEAN }

InitLoad ==
    /\ pc = "file"
    /\ loader \in Loaders
    /\ container \in Containers
    /\ (container.shape \in {"other_dict", "scalar"} => container.steps = <<>>)
    /\ load_result = NoResult
    /\ input_layout \in (IF loader = "fixed_process_react" THEN Layouts ELSE {"task_dirs"})
    /\ lenient_mode \in (IF loader = "fixed_process_react" THEN BOOLEAN ELSE {FALSE})
    /\ IdleButLoad

LoadO4Mini ==
    /\ pc = "file"
    /\ loader = "analyze_o4_mini"
    /\ load_result' = load_trajectory(container)
    /\ pc' = "loaded"
    /\ UNCHANGED <<loader, container, input_layout, lenient_mode>>
    /\ UNCHANGED othersOfLoad

LoadSimplified ==
    /\ pc = "file"
    /\ loader = "simplified_process_react"
    /\ load_result' = LoadSimplifiedFile(container)
    /\ pc' = "loaded"
    /\ UNCHANGED <<loader, container, input_layout, lenient_mode>>
    /\ UNCHANGED othersOfLoad

LoadFixed ==
    /\ pc = "file"
    /\ loader = "fixed_process_react"
    /\ load_result' =
           IF input_layout = "task_dirs" THEN LoadFixedFile(container)
           ELSE LoadFixedFlatFile(container, lenient_mode)
    /\ pc' = "loaded"
    /\ UNCHANGED <<loader, container, input_layout, lenient_mode>>
    /\ UNCHANGED othersOfLoad

NextLoad == LoadO4Mini \/ LoadSimplified \/ LoadFixed

SpecLoad == InitLoad /\ [][NextLoad]_vars

SupportedShapes == {"list", "trajectory", "task_data"}

\* C18: each of the three loaders extracts the step sequence from a raw
\* sequence of steps, from a mapping with a trajectory key, and from a mapping
\* with a nested task_data.trajectory key.
C18_AllShapesExtracted ==
    (pc = "loaded" /\ container.readable /\ container.shape \in SupportedShapes
         /\ container.steps # <<>>)
    => (load_result.loaded /\ load_result.trajectory = container.steps)

\* A trajectory fixed_process_react can load: a readable mapping of one of the
\* two kinds it knows, with steps and with a task description.
FixedLoadable ==
    /\ container.readable
    /\ container.shape \in {"trajectory", "task_data"}
    /\ container.steps # <<>>
    /\ \/ container.shape = "task_data"
       \/ container.has_task_info
       \/ (input_layout = "task_dirs" /\ container.has_config)

PositiveScore == container.score # NoScore /\ container.score > 0

\* C24: in fixed_process_react, with lenient mode off a trajectory is included
\* for conversion only when its recorded score is greater than 0, and with
\* lenient mode on every loadable trajectory is included, in both layouts of the
\* input directory.
C24_ScoreFilterUnlessLenient ==
    (pc = "loaded" /\ loader = "fixed_process_react") =>
        /\ (load_result.included /\ ~lenient_mode) => PositiveScore
        /\ (FixedLoadable /\ (lenient_mode \/ PositiveScore)) => load_result.included
----------------------------------------------------------------------------
(* The loops over the files of a directory, checked under SpecBatch *)

\* A file of the directory: what it holds, how reading it fails ("none",
\* "os_error" when open() raises, "decode_error" when the payload cannot be
\* decoded), and the scores field of the task's performance file (NoScore when
\* there is no such file or field).
BatchFile(c, failure, perf_scores) ==
    [container |-> c, failure |-> failure, perf_scores |-> perf_scores]

GoodFile(shape, score, perf_scores) ==
    BatchFile(Container(shape, PlainSteps, TRUE, score, FALSE, FALSE), "none", perf_scores)

UnrecognisedFile ==
    BatchFile(Container("scalar", <<>>, TRUE, NoScore, FALSE, FALSE), "none", NoScore)

FailingFile(failure) ==
    BatchFile(Container("trajectory", PlainSteps, FALSE, NoScore, FALSE, FALSE),
              failure, NoScore)

BatchFiles ==
    { GoodFile("trajectory", 0, NoScore), GoodFile("trajectory", 1, NoScore),
      GoodFile("trajectory", 0, 1),
      GoodFile("trajectory", NoScore, NoScore), GoodFile("trajectory", NoScore, 1),
      GoodFile("trajectory", NoScore, 0),
      GoodFile("list", NoScore, NoScore),
      UnrecognisedFile, FailingFile("os_error"), FailingFile("decode_error") }

BatchScripts == {"analyze_o4_mini", "simplified_process_react", "analyze_trajectory_success"}

MaxBatchFiles == 3

InitBatch ==
    /\ pc = "build"
    /\ batch_script \in BatchScripts
    /\ listing = <<>>
    /\ cursor = 1
    /\ processed = {}
    /\ skipped = {}
    /\ batch_status = "running"
    /\ results = NoResults
    /\ IdleButBatch

AddFile ==
    /\ pc = "build"
    /\ Len(listing) < MaxBatchFiles
    /\ \E f \in BatchFiles : listing' = Append(listing, f)
    /\ UNCHANGED <<pc, batch_script, cursor, processed, skipped, batch_status, results>>
    /\ UNCHANGED othersOfBatch

FileToVisit ==
    /\ pc \in {"build", "run"}
    /\ batch_status = "running"
    /\ cursor <= Len(listing)

\* A score that is greater than 0.
IsSuccessful_NonNegative(score, perf_scores) ==
    IF score # NoScore THEN score >= 0
    ELSE IF perf_scores # NoScore THEN perf_scores >= 0
    ELSE FALSE

\* analyze_trajectories, lines 127-131.
IsSuccessful(score, perf_scores) ==
    IF score # NoScore THEN score > 0
    ELSE IF perf_scores # NoScore THEN perf_scores > 0
    ELSE FALSE

\* analyze_o4_mini_trajectories.py, analyze_trajectories: the body of the loop
\* over task_files (lines 96-151).
AnalyzeO4MiniFile ==
    /\ FileToVisit
    /\ batch_script = "analyze_o4_mini"
    /\ LET f == listing[cursor]
           r == load_trajectory(f.container)
           ok == IsSuccessful(r.score, f.perf_scores)
       IN  IF ~r.loaded
           THEN /\ skipped' = skipped \cup {cursor}
                /\ UNCHANGED <<processed, results>>
           ELSE /\ processed' = processed \cup {cursor}
                /\ results' =
                       [results EXCEPT
                           !.successful_tasks = @ + (IF ok THEN 1 ELSE 0),
                           !.failed_tasks = @ + (IF ok THEN 0 ELSE 1),
                           !.total_trajectories = @ + 1]
                /\ UNCHANGED skipped
    /\ cursor' = cursor + 1
    /\ pc' = "run"
    /\ UNCHANGED <<batch_script, listing, batch_status>>
    /\ UNCHANGED othersOfBatch

\* analyze_trajectories after the loop (lines 153-160).
SummariseO4Mini ==
    /\ pc \in {"build", "run"}
    /\ batch_status = "running"
    /\ batch_script = "analyze_o4_mini"
    /\ cursor > Len(listing)
    /\ results' =
           IF results.total_trajectories > 0
           THEN [results EXCEPT !.success_rate =
                    <<results.successful_tasks * 100, results.total_trajectories>>]
           ELSE results
    /\ batch_status' = "completed"
    /\ pc' = "done"
    /\ UNCHANGED <<batch_script, listing, cursor, processed, skipped>>
    /\ UNCHANGED othersOfBatch

\* simplified_process_react.py, process_trajectories: the body of the loop over
\* task_dirs (lines 431-489); both try blocks catch every Exception.
LoadSimplifiedTask ==
    /\ FileToVisit
    /\ batch_script = "simplified_process_react"
    /\ LET r == LoadSimplifiedFile(listing[cursor].container)
       IN  IF r.loaded
           THEN /\ processed' = processed \cup {cursor}
                /\ results' = [results EXCEPT !.total_trajectories = @ + 1]
                /\ UNCHANGED skipped
           ELSE /\ skipped' = skipped \cup {cursor}
                /\ UNCHANGED <<processed, results>>
    /\ cursor' = cursor + 1
    /\ pc' = "run"
    /\ UNCHANGED <<batch_script, listing, batch_status>>
    /\ UNCHANGED othersOfBatch

\* analyze_trajectory_success.py, analyze_performance_files: the body of the
\* loop over the performance files (lines 42-101).  Only JSONDecodeError,
\* ValueError and KeyError are caught: an OSError of open() and the TypeError of
\* `"success" in data` for data that is not a container leave the function.
AnalyzePerformanceFile ==
    /\ FileToVisit
    /\ batch_script = "analyze_trajectory_success"
    /\ LET f == listing[cursor]
       IN  IF f.failure = "os_error" \/ (f.failure = "none" /\ f.container.shape = "scalar")
           THEN /\ batch_status' = "aborted"
                /\ UNCHANGED <<processed, skipped, results>>
           ELSE IF f.failure = "decode_error"
           THEN /\ skipped' = skipped \cup {cursor}
                /\ results' = [results EXCEPT !.failed_tasks = @ + 1]
                /\ UNCHANGED <<processed, batch_status>>
           ELSE /\ processed' = processed \cup {cursor}
                /\ results' =
                       IF f.container.shape # "list" /\ f.container.score # NoScore
                          /\ f.container.score > 0
                       THEN [results EXCEPT !.successful_tasks = @ + 1]
                       ELSE [results EXCEPT !.failed_tasks = @ + 1]
                /\ UNCHANGED <<skipped, batch_status>>
    /\ cursor' = cursor + 1
    /\ pc' = "run"
    /\ UNCHANGED <<batch_script, listing>>
    /\ UNCHANGED othersOfBatch

\* The loop of the other two scripts is over; analyze_performance_files leaves
\* with sys.exit(1) before the loop when there is no file (lines 34-36).
FinishBatch ==
    /\ pc \in {"build", "run"}
    /\ batch_status = "running"
    /\ batch_script # "analyze_o4_mini"
    /\ cursor > Len(listing)
    /\ batch_status' =
           IF batch_script = "analyze_trajectory_success" /\ listing = <<>>
           THEN "exit" ELSE "completed"
    /\ pc' = "done"
    /\ UNCHANGED <<batch_script, listing, cursor, processed, skipped, results>>
    /\ UNCHANGED othersOfBatch

NextBatch ==
    \/ AddFile
    \/ AnalyzeO4MiniFile
    \/ SummariseO4Mini
    \/ LoadSimplifiedTask
    \/ AnalyzePerformanceFile
    \/ FinishBatch

SpecBatch == InitBatch /\ [][NextBatch]_vars

\* Unreadable, corrupt, or of an unrecognised format.
IsBadFile(f) == f.failure # "none" \/ f.container.shape = "scalar"

\* C19: a file that is unreadable, corrupt or of an unrecognised format is
\* skipped and is never fatal to the batch: the run is not aborted, and when it
\* completes every bad file has been skipped and every other file processed,
\* wherever the bad files are in the listing.
C19_BadFileNeverFatal ==
    /\ batch_status # "aborted"
    /\ batch_status = "completed" =>
           \A i \in 1..Len(listing) :
               IF IsBadFile(listing[i]) THEN i \in skipped ELSE i \in processed

\* The score of a file: that of the trajectory file, else the scores field of
\* the performance file.
ScoreOf(f) ==
    IF f.container.score # NoScore THEN f.container.score ELSE f.perf_scores

LoadedFiles == { i \in 1..Len(listing) : ~IsBadFile(listing[i]) }

PositiveFiles == { i \in LoadedFiles : ScoreOf(listing[i]) # NoScore /\ ScoreOf(listing[i]) > 0 }

O4MiniCompleted == batch_script = "analyze_o4_mini" /\ batch_status = "completed"

\* C20: when analyze_trajectories has run over the directory, total_trajectories
\* is the number of loaded trajectories, successful_tasks the number of them
\* whose score (of the trajectory file, else of the performance file) is
\* positive, every other one (a trajectory with no score included) is a failed
\* task, so that successful_tasks + failed_tasks = total_trajectories, and the
\* success rate is 100 * successful_tasks / total_trajectories.
C20_SuccessRate ==
    O4MiniCompleted =>
        /\ results.total_trajectories = Cardinality(LoadedFiles)
        /\ results.successful_tasks = Cardinality(PositiveFiles)
        /\ results.failed_tasks = Cardinality(LoadedFiles \ PositiveFiles)
        /\ results.successful_tasks + results.failed_tasks = results.total_trajectories
        /\ results.total_trajectories > 0 =>
               results.success_rate[1] * results.total_trajectories
                   = 100 * results.successful_tasks * results.success_rate[2]

\* One file with score 1 and one with no score: the rate is 50%.
C20_Witness ==
    /\ O4MiniCompleted
    /\ listing = <<GoodFile("trajectory", 1, NoScore), GoodFile("trajectory", NoScore, NoScore)>>
    /\ results.successful_tasks = 1
    /\ results.failed_tasks = 1
    /\ results.success_rate[1] = 50 * results.success_rate[2]
----------------------------------------------------------------------------
(* simple_react.py, checked under SpecReact *)

\* The tasks of the list tasks (lines 20-26), by their number i+1.
NumTasks == 3

\* for step in range(5), line 84.
StepsPerTask == 5

ObservationItem == [key |-> "observation"]

ActionItem(action_type) == [key |-> "action", action_type |-> action_type]

\* What a chat-completion call can do: answer with a reply whose last line is a
\* CLICK or a STOP action, answer with a status other than 200 (call_openai
\* returns None, lines 42-44), or raise in requests.post (line 41).
Replies == {"CLICK", "STOP", "http_error", "exception"}

InitReact ==
    /\ pc = "react"
    /\ react_task = 1
    /\ react_step = 0
    /\ react_trajectory = <<ObservationItem>>
    /\ react_failed = {}
    /\ react_trajectories = <<>>
    /\ saved_files = <<>>
    /\ finetune_examples = <<>>
    /\ react_status = "running"
    /\ IdleButReact

\* Lines 148-170: what follows the loop over the steps, however it was left
\* (the break of line 89 after a failed call included).
RecordTrajectory(trajs, task_id, traj) ==
    Append(trajs, [task_id |-> task_id, trajectory |-> traj, score |-> 1])

\* One iteration of the loop over the steps (lines 84-146) and, when it leaves
\* the loop, the rest of the body of the loop over the tasks (lines 148-170).
ReactStep ==
    /\ pc = "react"
    /\ react_status = "running"
    /\ react_task <= NumTasks
    /\ \E reply \in Replies :
        LET extended ==
                IF reply = "STOP" THEN Append(react_trajectory, ActionItem("STOP"))
                ELSE IF reply = "CLICK"
                THEN react_trajectory \o <<ActionItem("CLICK"), ObservationItem>>
                ELSE react_trajectory
            leaves == reply # "CLICK" \/ react_step + 1 = StepsPerTask
        IN  IF reply = "exception"
            THEN /\ react_status' = "aborted"
                 /\ react_failed' = react_failed \cup {react_task}
                 /\ UNCHANGED <<react_task, react_step, react_trajectory,
                                react_trajectories>>
            ELSE /\ react_failed' =
                        IF reply = "http_error" THEN react_failed \cup {react_task}
                        ELSE react_failed
                 /\ IF leaves
                    THEN /\ react_trajectories' =
                                RecordTrajectory(react_trajectories, react_task, extended)
                         /\ react_task' = react_task + 1
                         /\ react_step' = 0
                         /\ react_trajectory' = <<ObservationItem>>
                    ELSE /\ react_trajectory' = extended
                         /\ react_step' = react_step + 1
                         /\ UNCHANGED <<react_task, react_trajectories>>
                 /\ UNCHANGED react_status
    /\ UNCHANGED <<pc, saved_files, finetune_examples>>
    /\ UNCHANGED othersOfReact

\* Lines 172-180: test_task_{i+1}.json holds the i-th entry of trajectories.
SaveTrajectories ==
    /\ pc = "react"
    /\ react_status = "running"
    /\ react_task > NumTasks
    /\ saved_files' = [i \in 1..Len(react_trajectories) |-> react_trajectories[i].task_id]
    /\ react_status' = "saved"
    /\ UNCHANGED <<pc, react_task, react_step, react_trajectory, react_failed,
                   react_trajectories, finetune_examples>>
    /\ UNCHANGED othersOfReact

\* create_finetune_data, lines 204-229: one example for each position whose
\* next item is an action with a raw_prediction.
RECURSIVE ExamplesOf(_, _, _)
ExamplesOf(traj, task_id, i) ==
    IF i > Len(traj) THEN <<>>
    ELSE (IF i + 1 <= Len(traj) /\ traj[i + 1].key = "action" THEN <<task_id>> ELSE <<>>)
         \o ExamplesOf(traj, task_id, i + 1)

RECURSIVE ExamplesOfAll(_)
ExamplesOfAll(trajs) ==
    IF trajs = <<>> THEN <<>>
    ELSE ExamplesOf(Head(trajs).trajectory, Head(trajs).task_id, 1)
         \o ExamplesOfAll(Tail(trajs))

\* create_finetune_data and create_openai_format (lines 183-268), which reads
\* the examples of the first back one by one.
CreateFinetuneData ==
    /\ pc = "react"
    /\ react_status = "saved"
    /\ finetune_examples' = ExamplesOfAll(react_trajectories)
    /\ react_status' = "converted"
    /\ UNCHANGED <<pc, react_task, react_step, react_trajectory, react_failed,
                   react_trajectories, saved_files>>
    /\ UNCHANGED othersOfReact

NextReact ==
    \/ ReactStep
    \/ SaveTrajectories
    \/ CreateFinetuneData

SpecReact == InitReact /\ [][NextReact]_vars

SeqRange(s) == { s[i] : i \in 1..Len(s) }

RecordedTasks == { react_trajectories[i].task_id : i \in 1..Len(react_trajectories) }

\* C21: a failed chat-completion call aborts only the current task: the run is
\* never aborted, no trajectory of a task with a failed call is recorded, saved
\* or converted to training data, and when the run is over every task without a
\* failed call has been recorded and saved.
C21_FailedCallSkipsOnlyTheTask ==
    /\ react_status # "aborted"
    /\ \A t \in react_failed :
           /\ t \notin RecordedTasks
           /\ t \notin SeqRange(saved_files)
           /\ t \notin SeqRange(finetune_examples)
    /\ react_status = "converted" =>
           \A t \in (1..NumTasks) \ react_failed :
               t \in RecordedTasks /\ t \in SeqRange(saved_files)
----------------------------------------------------------------------------
(* The caption caches, checked under SpecCaption *)

Images == {"img1", "img2", "img3"}

Captions == {"a cat", "a dog"}

\* hash(img.tobytes()), fixed_process_react.py line 41: img1 and img3 stand for
\* two images with the same hash.
Hash(img) == IF img = "img2" THEN "h2" ELSE "h1"

\* The concatenation of the encoded images, process_react_trajectories.py
\* lines 52-54: the key is the sequence of the images.
EncodedImages(images) == images

HasKey(cache, k) == \E i \in 1..Len(cache) : cache[i].key = k

GetItem(cache, k) == cache[CHOOSE i \in 1..Len(cache) : cache[i].key = k].value

\* image_caption_cache[img_hash] = caption for a key that is not in the dict.
SetItem(cache, k, v) == Append(cache, [key |-> k, value |-> v])

RemoveAt(cache, i) == SubSeq(cache, 1, i - 1) \o SubSeq(cache, i + 1, Len(cache))

\* Cache(maxsize=1000), process_react_trajectories.py line 32, scaled down.
CacheMaxSize == 2

MaxCaptionCalls == 3

ImageLists == { <<a>> : a \in Images } \cup { <<"img1", b>> : b \in Images }

InitCaption ==
    /\ pc = 0
    /\ caption_script \in {"fixed_process_react", "process_react_trajectories"}
    \* process_react_trajectories loads the cache of an earlier run (lines 36-38)
    /\ image_caption_cache \in
           IF caption_script = "process_react_trajectories"
           THEN {<<>>, <<[key |-> EncodedImages(<<"img1">>), value |-> <<"a cat">>]>>}
           ELSE {<<>>}
    /\ captioner_log = <<>>
    /\ cache_before = image_caption_cache
    /\ last_images = <<>>
    /\ last_captions = <<>>
    /\ last_invoked = <<>>
    /\ IdleButCaption

\* The loop of fixed_process_react.cached_caption_image_fn with the captioner
\* invoked on every image.
RECURSIVE CaptionEach_AlwaysInvoke(_, _, _)
CaptionEach_AlwaysInvoke(images, cache, captioner) ==
    IF images = <<>> THEN [cache |-> cache, captions |-> <<>>, invoked |-> <<>>]
    ELSE LET k == Hash(Head(images))
             hit == HasKey(cache, k)
             caption == captioner[Head(images)]
             rest == CaptionEach_AlwaysInvoke(Tail(images),
                                 IF hit THEN cache ELSE SetItem(cache, k, caption), captioner)
         IN  [cache |-> rest.cache,
              captions |-> <<caption>> \o rest.captions,
              invoked |-> <<k>> \o rest.invoked]

\* The loop of fixed_process_react.cached_caption_image_fn (lines 39-48);
\* captioner[img] is what caption_image_fn returns for img in this call.
RECURSIVE CaptionEach(_, _, _)
CaptionEach(images, cache, captioner) ==
    IF images = <<>> THEN [cache |-> cache, captions |-> <<>>, invoked |-> <<>>]
    ELSE LET k == Hash(Head(images))
             hit == HasKey(cache, k)
             caption == IF hit THEN GetItem(cache, k) ELSE captioner[Head(images)]
             rest == CaptionEach(Tail(images),
                                 IF hit THEN cache ELSE SetItem(cache, k, caption), captioner)
         IN  [cache |-> rest.cache,
              captions |-> <<caption>> \o rest.captions,
              invoked |-> (IF hit THEN <<>> ELSE <<k>>) \o rest.invoked]

InvokeEvents(keys) == [i \in 1..Len(keys) |-> [op |-> "invoke", key |-> keys[i]]]

\* fixed_process_react.py, cached_caption_image_fn (lines 37-48).
CaptionFixed ==
    /\ pc < MaxCaptionCalls
    /\ caption_script = "fixed_process_react"
    /\ \E images \in ImageLists, captioner \in [Images -> Captions] :
        LET r == CaptionEach(images, image_caption_cache, captioner)
        IN  /\ image_caption_cache' = r.cache
            /\ last_captions' = r.captions
            /\ last_invoked' = r.invoked
            /\ captioner_log' = captioner_log \o InvokeEvents(r.invoked)
            /\ last_images' = images
    /\ cache_before' = image_caption_cache
    /\ pc' = pc + 1
    /\ UNCHANGED caption_script
    /\ UNCHANGED othersOfCaption

\* process_react_trajectories.py, cached_caption_image_fn (lines 51-60).  When
\* the cache is full, storing a new key makes the Cache drop an entry; which
\* one is the library's choice.
CaptionProcessReact ==
    /\ pc < MaxCaptionCalls
    /\ caption_script = "process_react_trajectories"
    /\ \E images \in ImageLists, captioner \in [Images -> Captions] :
        LET k == EncodedImages(images)
            captions == [i \in 1..Len(images) |-> captioner[images[i]]]
        IN  /\ last_images' = images
            /\ IF HasKey(image_caption_cache, k)
               THEN /\ last_captions' = GetItem(image_caption_cache, k)
                    /\ last_invoked' = <<>>
                    /\ UNCHANGED <<image_caption_cache, captioner_log>>
               ELSE /\ last_captions' = captions
                    /\ last_invoked' = <<k>>
                    /\ IF Len(image_caption_cache) < CacheMaxSize
                       THEN /\ image_caption_cache' = SetItem(image_caption_cache, k, captions)
                            /\ captioner_log' = captioner_log \o InvokeEvents(<<k>>)
                       ELSE \E victim \in 1..Len(image_caption_cache) :
                            /\ image_caption_cache' =
                                   SetItem(RemoveAt(image_caption_cache, victim), k, captions)
                            /\ captioner_log' =
                                   captioner_log \o InvokeEvents(<<k>>)
                                   \o <<[op |-> "evict", key |-> image_caption_cache[victim].key]>>
    /\ cache_before' = image_caption_cache
    /\ pc' = pc + 1
    /\ UNCHANGED caption_script
    /\ UNCHANGED othersOfCaption

NextCaption ==
    \/ CaptionFixed
    \/ CaptionProcessReact

SpecCaption == InitCaption /\ [][NextCaption]_vars

\* The keys of the last call, one per returned caption (fixed_process_react) or
\* one for the whole list (process_react_trajectories).
LastKeys ==
    IF caption_script = "fixed_process_react"
    THEN [i \in 1..Len(last_images) |-> Hash(last_images[i])]
    ELSE IF last_images = <<>> THEN <<>> ELSE <<EncodedImages(last_images)>>

\* What the last call returned for its i-th key.
ReturnedFor(i) ==
    IF caption_script = "fixed_process_react" THEN last_captions[i] ELSE last_captions

Occurrences(seq, x) == Cardinality({ i \in 1..Len(seq) : seq[i] = x })

\* The invocations of the captioner for key k since k was last evicted.
InvokedSinceEvicted(k) ==
    LET evictions == { i \in 1..Len(captioner_log) :
                          captioner_log[i] = [op |-> "evict", key |-> k] }
        from == IF evictions = {} THEN 0
                ELSE CHOOSE i \in evictions : \A j \in evictions : j <= i
    IN  Cardinality({ i \in (from + 1)..Len(captioner_log) :
                         captioner_log[i] = [op |-> "invoke", key |-> k] })

\* C22: the cache is read before it is written for each key.  After every call,
\* for each key of the call: if the key was cached when the call began, the call
\* returned the stored caption, did not invoke the captioner for the key and
\* left the cache as it was; otherwise the captioner was invoked exactly once
\* for the key and the cache holds what the call returned for it.  And for every
\* key in the cache the captioner has been invoked at most once since the key
\* was last evicted.
C22_CacheReadBeforeWrite ==
    /\ \A i \in 1..Len(LastKeys) :
           LET k == LastKeys[i]
           IN  IF HasKey(cache_before, k)
               THEN /\ ReturnedFor(i) = GetItem(cache_before, k)
                    /\ Occurrences(last_invoked, k) = 0
                    /\ HasKey(image_caption_cache, k)
                    /\ GetItem(image_caption_cache, k) = GetItem(cache_before, k)
               ELSE /\ Occurrences(last_invoked, k) = 1
                    /\ HasKey(image_caption_cache, k)
                    /\ GetItem(image_caption_cache, k) = ReturnedFor(i)
    /\ (\A i \in 1..Len(LastKeys) : HasKey(cache_before, LastKeys[i]))
           => image_caption_cache = cache_before
    /\ \A i \in 1..Len(image_caption_cache) :
           InvokedSinceEvicted(image_caption_cache[i].key) <= 1

\* A hit and a miss have both happened: the last call was served from the cache
\* although the captioner would have answered differently, after an earlier
\* call stored the entry.
C22_Witness ==
    /\ pc >= 2
    /\ last_images # <<>>
    /\ last_invoked = <<>>
    /\ image_caption_cache = cache_before
    /\ captioner_log # <<>>
    /\ \A i \in 1..Len(LastKeys) : InvokedSinceEvicted(LastKeys[i]) = 1
----------------------------------------------------------------------------
(* Purity and well-formedness of flattening, checked under SpecFlatten *)

\* C23: flattening is pure.  The step that flattens the trajectory of a file
\* leaves the trajectory as it was (length, order and items), and every item of
\* the result is a new object holding the value of the input item it was copied
\* from, so that no object is shared between the two sequences.
C23_FlatteningPure ==
    [][(pc = "build" /\ pc' = "analyzed") =>
          /\ trajectory' = trajectory
          /\ Len(flattened_objects') = Len(flattened_traj')
          /\ \A i \in 1..Len(flattened_objects') :
                 /\ ~flattened_objects'[i].same_object
                 /\ flattened_objects'[i].copy_of \in 1..Len(trajectory)
                 /\ flattened_traj'[i] = trajectory[flattened_objects'[i].copy_of]
          /\ \A i, k \in 1..Len(flattened_objects') :
                 i < k => flattened_objects'[i].copy_of < flattened_objects'[k].copy_of]_vars

\* A trajectory with a State, a forward Action and a backtrack Action has been
\* flattened.
C23_Witness ==
    /\ pc = "analyzed"
    /\ Len(trajectory) >= 3
    /\ \E i \in 1..Len(trajectory) : IsBacktrackAction(trajectory[i])
    /\ \E i \in 1..Len(flattened_traj) : IsForwardAction(flattened_traj[i])
    /\ \E i \in 1..Len(flattened_traj) : IsState(flattened_traj[i])
    /\ Len(flattened_objects) = Len(flattened_traj)

\* current_type of analyze_trajectory (lines 67-80).
current_type(it) ==
    IF it.isDict THEN "state" ELSE IF it.hasRaw THEN "action" ELSE "unknown"

\* is_alternating of analyze_trajectory (lines 63-85).
is_alternating(traj) ==
    \A i \in 1..(Len(traj) - 1) : current_type(traj[i]) # current_type(traj[i + 1])

\* starts_with_state of analyze_trajectory (line 88).
starts_with_state(traj) == Len(traj) > 0 /\ traj[1].isDict

\* At least two items, States and Actions in turn, a State first.
IsWellFormed(traj) ==
    /\ Len(traj) >= 2
    /\ starts_with_state(traj)
    /\ is_alternating(traj)
    /\ \A i \in 1..Len(traj) : current_type(traj[i]) # "unknown"

\* C29: flattening preserves well-formedness: when the trajectory of the file is
\* well formed and try_flattening reports the flattened trajectory valid, the
\* flattened trajectory still alternates State and Action strictly.
C29_FlatteningKeepsAlternation ==
    (pc = "analyzed" /\ IsWellFormed(trajectory) /\ has_state_action_pair)
        => is_alternating(flattened_traj)
----------------------------------------------------------------------------
(* The task-id filter of process_trajectories, checked under SpecTaskFilter *)

TaskIds == {1, 2, 3}

\* The elements of the JSON list of a filter file: a mapping with a task_id, a
\* mapping with a task_id that cannot be hashed (a list), a mapping without
\* task_id, and an element that is not a mapping.
FilterItems ==
    { [kind |-> "task", task_id |-> t] : t \in {1, 2} }
    \cup { [kind |-> "unhashable_id", task_id |-> 0],
           [kind |-> "no_id", task_id |-> 0],
           [kind |-> "not_a_dict", task_id |-> 0] }

MaxFilterItems == 2

\* What the filter file can be: absent, unreadable (open raises), corrupt
\* (json.load raises), valid JSON that cannot be iterated (a number, null), or a
\* list of elements.
FilterFiles ==
    { NoFilterFile,
      [kind |-> "unreadable", items |-> <<>>],
      [kind |-> "corrupt", items |-> <<>>],
      [kind |-> "not_iterable", items |-> <<>>] }
    \cup { [kind |-> "list", items |-> its] :
               its \in UNION { [1..n -> FilterItems] : n \in 0..MaxFilterItems } }

\* The loop of lines 385-387 over the elements from position i on: the set is
\* filled until an element raises.
RECURSIVE CollectIds(_, _, _)
CollectIds(items, i, ids) ==
    IF i > Len(items) THEN [ids |-> ids, raised |-> FALSE]
    ELSE IF items[i].kind = "task" THEN CollectIds(items, i + 1, ids \cup {items[i].task_id})
    ELSE IF items[i].kind = "unhashable_id" THEN [ids |-> ids, raised |-> TRUE]
    ELSE CollectIds(items, i + 1, ids)

\* Lines 377-392: allowed_task_ids and whether the except branch was taken.
\* allowed_task_ids is bound to a new set at line 384, before the loop.
LoadFilterFile(f) ==
    IF f.kind = "absent" THEN [allowed |-> NoneIds, error |-> FALSE]
    ELSE IF f.kind \in {"unreadable", "corrupt"} THEN [allowed |-> NoneIds, error |-> TRUE]
    ELSE IF f.kind = "not_iterable"
    THEN [allowed |-> [is_none |-> FALSE, ids |-> {}], error |-> TRUE]
    ELSE LET r == CollectIds(f.items, 1, {})
         IN  [allowed |-> [is_none |-> FALSE, ids |-> r.ids], error |-> r.raised]

\* Line 423 and line 516: the task ids that pass the filter.
PassFilter(tasks, allowed) ==
    IF allowed.is_none THEN tasks ELSE { t \in tasks : t \in allowed.ids }

InitTaskFilter ==
    /\ pc = "start"
    /\ filter_file \in FilterFiles
    /\ task_input_mode \in {"directory", "bundle"}
    /\ available_tasks \in SUBSET TaskIds
    /\ allowed_task_ids = NoneIds
    /\ filter_error = FALSE
    /\ selected_tasks = {}
    /\ IdleButTaskFilter

\* process_trajectories on a directory: lines 376-392, then the loop over the
\* task directories (lines 417-491) with every trajectory file loadable.
ProcessDirectory ==
    /\ pc = "start"
    /\ task_input_mode = "directory"
    /\ LET r == LoadFilterFile(filter_file)
       IN  /\ allowed_task_ids' = r.allowed
           /\ filter_error' = r.error
           /\ selected_tasks' = PassFilter(available_tasks, r.allowed)
    /\ pc' = "loaded"
    /\ UNCHANGED <<filter_file, task_input_mode, available_tasks>>
    /\ UNCHANGED othersOfTaskFilter

\* process_trajectories on an exported bundle: lines 376-392, then lines
\* 509-522.
ProcessBundle ==
    /\ pc = "start"
    /\ task_input_mode = "bundle"
    /\ LET r == LoadFilterFile(filter_file)
       IN  /\ allowed_task_ids' = r.allowed
           /\ filter_error' = r.error
           /\ selected_tasks' = PassFilter(available_tasks, r.allowed)
    /\ pc' = "loaded"
    /\ UNCHANGED <<filter_file, task_input_mode, available_tasks>>
    /\ UNCHANGED othersOfTaskFilter

NextTaskFilter ==
    \/ ProcessDirectory
    \/ ProcessBundle

SpecTaskFilter == InitTaskFilter /\ [][NextTaskFilter]_vars

\* C25: when loading the filter file raised an error, process_trajectories goes
\* on without task-id filtering: every task found in the input is kept, in the
\* directory mode and in the bundle mode.
C25_FilterErrorMeansNoFiltering ==
    (pc = "loaded" /\ filter_error) => selected_tasks = available_tasks
----------------------------------------------------------------------------
(* analyze_performance_files in detail, checked under SpecPerformance *)

\* The value of a success indicator of a performance record.
Indicators == {"absent", "true", "false"}

\* A performance file: name_index is the number in its name (NoIndex when
\* int() cannot parse it), content is "mapping" or "corrupt" (json.load raises
\* JSONDecodeError), and the four fields are the indicators of a mapping.
PerformanceFile(name_index, content, success, is_success, completed, score) ==
    [name_index |-> name_index, content |-> content, success |-> success,
     is_success |-> is_success, completed |-> completed, score |-> score]

NameIndices == {NoIndex, 1, 2}

PerformanceFiles ==
    { PerformanceFile(n, "mapping", s, i, c, sc) :
          n \in NameIndices, s \in Indicators, i \in {"absent", "false"},
          c \in Indicators, sc \in Scores }
    \cup { PerformanceFile(n, "mapping", "absent", "true", "absent", NoScore) : n \in NameIndices }
    \cup { PerformanceFile(n, "corrupt", "absent", "absent", "absent", NoScore) :
               n \in NameIndices }

MaxPerfFiles == 2

\* Lines 54-77: is_success and reasons of a record.  Each indicator that is
\* present assigns is_success; only a true one adds a reason.
ClassifyRecord(f) ==
    LET s1 == IF f.success = "absent" THEN FALSE ELSE f.success = "true"
        r1 == IF f.success = "true" THEN <<"success=True">> ELSE <<>>
        s2 == IF f.is_success = "absent" THEN s1 ELSE f.is_success = "true"
        r2 == r1 \o (IF f.is_success = "true" THEN <<"is_success=True">> ELSE <<>>)
        s3 == IF f.completed = "absent" THEN s2 ELSE f.completed = "true"
        r3 == r2 \o (IF f.completed = "true" THEN <<"completed=True">> ELSE <<>>)
        positive == f.score # NoScore /\ f.score > 0
        s4 == IF positive THEN TRUE ELSE s3
        r4 == r3 \o (IF positive THEN <<"score">> ELSE <<>>)
    IN  [is_success |-> s4, reasons |-> r4]

\* detailed_results[index] = entry: the dict as a sequence of (key, entry)
\* pairs, a key keeping its place when it is assigned again.
AssignEntry(results_dict, key, entry) ==
    IF \E i \in 1..Len(results_dict) : results_dict[i].key = key
    THEN [i \in 1..Len(results_dict) |->
             IF results_dict[i].key = key THEN [key |-> key, entry |-> entry]
             ELSE results_dict[i]]
    ELSE Append(results_dict, [key |-> key, entry |-> entry])

InitPerformance ==
    /\ pc = "build"
    /\ perf_listing = <<>>
    /\ perf_cursor = 1
    /\ perf_index = NoIndex
    /\ successful_indices = <<>>
    /\ failed_indices = <<>>
    /\ detailed_results = <<>>
    /\ perf_status = "running"
    /\ IdleButPerformance

\* glob.glob and sorted (lines 31-42): the files, one at a time.
AddPerformanceFile ==
    /\ pc = "build"
    /\ Len(perf_listing) < MaxPerfFiles
    /\ \E f \in PerformanceFiles : perf_listing' = Append(perf_listing, f)
    /\ UNCHANGED <<pc, perf_cursor, perf_index, successful_indices, failed_indices,
                   detailed_results, perf_status>>
    /\ UNCHANGED othersOfPerformance

\* The body of the loop over the files (lines 43-103).  The handler of line 95
\* uses index as it is when the exception is raised: unbound (UnboundLocalError)
\* or that of the file before when int() raised, the file's own when json.load
\* raised.
AnalyzeNextPerformanceFile ==
    /\ pc \in {"build", "run"}
    /\ perf_status = "running"
    /\ perf_cursor <= Len(perf_listing)
    /\ LET f == perf_listing[perf_cursor]
           c == ClassifyRecord(f)
           error_entry == [file |-> perf_cursor, status |-> "ERROR", reasons |-> <<"error">>]
       IN  IF f.name_index = NoIndex
           THEN IF perf_index = NoIndex
                THEN /\ perf_status' = "aborted"
                     /\ UNCHANGED <<perf_index, successful_indices, failed_indices,
                                    detailed_results>>
                ELSE /\ failed_indices' = Append(failed_indices, perf_index)
                     /\ detailed_results' =
                            AssignEntry(detailed_results, perf_index, error_entry)
                     /\ UNCHANGED <<perf_index, successful_indices, perf_status>>
           ELSE /\ perf_index' = f.name_index
                /\ IF f.content = "corrupt"
                   THEN /\ failed_indices' = Append(failed_indices, f.name_index)
                        /\ detailed_results' =
                               AssignEntry(detailed_results, f.name_index, error_entry)
                        /\ UNCHANGED successful_indices
                   ELSE /\ successful_indices' =
                               IF c.is_success THEN Append(successful_indices, f.name_index)
                               ELSE successful_indices
                        /\ failed_indices' =
                               IF c.is_success THEN failed_indices
                               ELSE Append(failed_indices, f.name_index)
                        /\ detailed_results' =
                               AssignEntry(detailed_results, f.name_index,
                                   [file |-> perf_cursor,
                                    status |-> IF c.is_success THEN "SUCCESS" ELSE "FAILED",
                                    reasons |-> IF c.reasons # <<>> THEN c.reasons
                                                ELSE <<"No success indicators found">>])
                /\ UNCHANGED perf_status
    /\ perf_cursor' = perf_cursor + 1
    /\ pc' = "run"
    /\ UNCHANGED perf_listing
    /\ UNCHANGED othersOfPerformance

\* sys.exit(1) when there is no file (lines 34-36), else the return of line 105.
ReturnPerformance ==
    /\ pc \in {"build", "run"}
    /\ perf_status = "running"
    /\ perf_cursor > Len(perf_listing)
    /\ perf_status' = IF perf_listing = <<>> THEN "exit" ELSE "completed"
    /\ pc' = "done"
    /\ UNCHANGED <<perf_listing, perf_cursor, perf_index, successful_indices,
                   failed_indices, detailed_results>>
    /\ UNCHANGED othersOfPerformance

NextPerformance ==
    \/ AddPerformanceFile
    \/ AnalyzeNextPerformanceFile
    \/ ReturnPerformance

SpecPerformance == InitPerformance /\ [][NextPerformance]_vars

\* The files whose names carry a number, and no number twice.
ParsableFiles == { i \in 1..Len(perf_listing) : perf_listing[i].name_index # NoIndex }

DistinctNameIndices ==
    \A i, j \in ParsableFiles :
        perf_listing[i].name_index = perf_listing[j].name_index => i = j

\* C26: when analyze_performance_files returns, each file whose name carries an
\* index has put that index once into exactly one of successful_indices and
\* failed_indices, no index is in both lists, and detailed_results holds one
\* entry per file, each file's entry describing that file, also when some names
\* or contents cannot be parsed.
C26_EachFileCountedOnce ==
    (perf_status = "completed" /\ DistinctNameIndices) =>
        /\ \A i \in ParsableFiles :
               Occurrences(successful_indices, perf_listing[i].name_index)
                 + Occurrences(failed_indices, perf_listing[i].name_index) = 1
        /\ SeqRange(successful_indices) \cap SeqRange(failed_indices) = {}
        /\ Len(detailed_results) = Len(perf_listing)
        /\ \A i \in 1..Len(perf_listing) :
               \E k \in 1..Len(detailed_results) : detailed_results[k].entry.file = i
        /\ \A i \in ParsableFiles :
               \E k \in 1..Len(detailed_results) :
                   /\ detailed_results[k].key = perf_listing[i].name_index
                   /\ detailed_results[k].entry.file = i

\* C27: a record is classified SUCCESS exactly when a success indicator was
\* recorded in its reasons, and a record classified FAILED has the reasons
\* ["No success indicators found"].
C27_SuccessIffIndicatorRecorded ==
    \A k \in 1..Len(detailed_results) :
        LET e == detailed_results[k].entry
        IN  e.status # "ERROR" =>
                /\ (e.status = "SUCCESS") <=> (e.reasons # <<"No success indicators found">>)
                /\ e.status = "FAILED" => e.reasons = <<"No success indicators found">>
----------------------------------------------------------------------------
(* analyze_react_trajectories.py, checked under SpecReactStats *)

\* A file of trajectory_dir.  kind is "json" for a .json file that loads,
\* "corrupt" for one json.load fails on, "compressed" for a .pkl.xz file;
\* success is the success key of a json file; actions is the number of entries
\* of its actions key, NoActions when the key is absent, BadActions when its
\* value cannot be iterated.
NoActions == -1

BadActions == -2

ReactFile(kind, success, n_actions) ==
    [kind |-> kind, success |-> success, actions |-> n_actions]

ReactFiles ==
    { ReactFile("json", s, a) : s \in Indicators, a \in {NoActions, BadActions, 1, 2} }
    \cup { ReactFile("corrupt", "absent", NoActions),
           ReactFile("compressed", "absent", NoActions) }

MaxReactFiles == 3

InitReactStats ==
    /\ pc = "build"
    /\ trajectory_files = <<>>
    /\ rs_cursor = 1
    /\ successful = 0
    /\ total_steps = 0
    /\ rs_trajectories = <<>>
    /\ rs_metrics = NoMetrics
    /\ rs_status = "running"
    /\ IdleButReactStats

\* os.listdir (line 26), one file at a time.
AddReactFile ==
    /\ pc = "build"
    /\ Len(trajectory_files) < MaxReactFiles
    /\ \E f \in ReactFiles : trajectory_files' = Append(trajectory_files, f)
    /\ UNCHANGED <<pc, rs_cursor, successful, total_steps, rs_trajectories,
                   rs_metrics, rs_status>>
    /\ UNCHANGED othersOfReactStats

\* The body of the loop over the files (lines 35-69).
AnalyzeReactFile ==
    /\ pc \in {"build", "run"}
    /\ rs_status = "running"
    /\ rs_cursor <= Len(trajectory_files)
    /\ LET f == trajectory_files[rs_cursor]
       IN  IF f.kind # "json"
           THEN UNCHANGED <<successful, total_steps, rs_trajectories>>
           ELSE /\ successful' = successful + (IF f.success = "true" THEN 1 ELSE 0)
                /\ IF f.actions = BadActions
                   THEN UNCHANGED <<total_steps, rs_trajectories>>
                   ELSE /\ total_steps' =
                               total_steps + (IF f.actions = NoActions THEN 0 ELSE f.actions)
                        /\ rs_trajectories' =
                               Append(rs_trajectories,
                                      [file |-> rs_cursor,
                                       steps |-> IF f.actions = NoActions THEN 0 ELSE f.actions,
                                       success |-> f.success = "true"])
    /\ rs_cursor' = rs_cursor + 1
    /\ pc' = "run"
    /\ UNCHANGED <<trajectory_files, rs_metrics, rs_status>>
    /\ UNCHANGED othersOfReactStats

\* Lines 28-30 and 71-81: the metrics over len(trajectory_files).
CalculateMetrics ==
    /\ pc \in {"build", "run"}
    /\ rs_status = "running"
    /\ rs_cursor > Len(trajectory_files)
    /\ rs_metrics' =
           IF trajectory_files = <<>> THEN rs_metrics
           ELSE [success_rate |-> <<successful, Len(trajectory_files)>>,
                 avg_trajectory_length |-> <<total_steps, Len(trajectory_files)>>]
    /\ rs_status' = "completed"
    /\ pc' = "done"
    /\ UNCHANGED <<trajectory_files, rs_cursor, successful, total_steps, rs_trajectories>>
    /\ UNCHANGED othersOfReactStats

NextReactStats ==
    \/ AddReactFile
    \/ AnalyzeReactFile
    \/ CalculateMetrics

SpecReactStats == InitReactStats /\ [][NextReactStats]_vars

RecordedSuccessful ==
    Cardinality({ k \in 1..Len(rs_trajectories) : rs_trajectories[k].success })

RECURSIVE RecordedSteps(_)
RecordedSteps(k) ==
    IF k = 0 THEN 0 ELSE rs_trajectories[k].steps + RecordedSteps(k - 1)

\* C28: success_rate is the fraction of the analysed trajectories that were
\* successful and avg_trajectory_length the steps per analysed trajectory, both
\* over exactly the trajectories recorded in results['trajectories']: files that
\* were skipped or failed to load do not change them.
C28_MetricsOverAnalysedTrajectories ==
    (rs_status = "completed" /\ Len(rs_trajectories) > 0) =>
        /\ rs_metrics.success_rate[1] * Len(rs_trajectories)
               = RecordedSuccessful * rs_metrics.success_rate[2]
        /\ rs_metrics.avg_trajectory_length[1] * Len(rs_trajectories)
               = RecordedSteps(Len(rs_trajectories)) * rs_metrics.avg_trajectory_length[2]
----------------------------------------------------------------------------
(* Partial and full turn lists, checked under SpecTurns *)

IsPrefixOf(a, b) == Len(a) <= Len(b) /\ SubSeq(b, 1, Len(a)) = a

\* The lists of the other mode for the actions, observations and action
\* history of the task.
FullOfTask == FullMessages(TaskIntent, action_history, observations, actions)

PartialOfTask(k) ==
    PartialMessages(TaskIntent, action_history, observations, actions, k).messages

\* C30: partial turn lists are prefixes of the full one.  The list built for
\* prefix length k is a prefix of the list built for k + 1 and is 2 turns
\* shorter, and for a task with n actions, n at most max_traj_length // 2, the
\* list for k = n is the list the full mode builds from the same actions,
\* observations and action history.
C30_PartialsArePrefixesOfFull ==
    (pc = "processed" /\ candidates # <<>>) =>
        IF create_partials
        THEN /\ \A k \in 1..(Len(candidates) - 1) :
                    /\ IsPrefixOf(candidates[k], candidates[k + 1])
                    /\ Len(candidates[k + 1]) = Len(candidates[k]) + 2
             /\ Len(actions) <= MaxTrajLength \div 2 =>
                    /\ Len(candidates) = Len(actions)
                    /\ candidates[Len(actions)] = FullOfTask
        ELSE /\ Len(candidates) = 1
             /\ Len(actions) <= MaxTrajLength \div 2 =>
                    candidates[1] = PartialOfTask(Len(actions))
             /\ \A k \in 1..Min(Len(actions), MaxTrajLength \div 2) :
                    IsPrefixOf(PartialOfTask(k), candidates[1])

\* Both partial lists of a task with two actions have been built, the first a
\* proper prefix of the second, the second equal to the full list, and its
\* two user prompts differ.
C30_Witness ==
    /\ pc = "processed"
    /\ create_partials
    /\ Len(actions) = 2
    /\ Len(candidates) = 2
    /\ candidates[2] = FullOfTask
    /\ IsPrefixOf(candidates[1], candidates[2])
    /\ candidates[1] # candidates[2]
    /\ candidates[2][2].content # candidates[2][4].content
=============================================================================
